---------------------------- MODULE Spec2Model ----------------------------
(***************************************************************************)
(* A model of the Vector Index (VectorStore.ts) and of the Recommendation *)
(* Engine that sits on it.                                                 *)
(*                                                                         *)
(* Numbers.  JavaScript numbers are modelled in fixed point: the integer  *)
(* n stands for n / Unit, so 1000 is 1.0 and 700 is 0.7.  Divisions and   *)
(* square roots round down to one unit, as floating point rounds to one   *)
(* ulp.  NaN is a value of its own that every arithmetic step propagates. *)
(*                                                                         *)
(* Text.  A string is the record [base, len]: the first len characters of *)
(* the unbounded character stream number base.  Lengths are real lengths, *)
(* so that the code's 500, 8000, 100 and 2000 keep their values.          *)
(***************************************************************************)
EXTENDS Integers, Sequences, FiniteSets, Bags, TLC

(***************************************************************************)
(* Bounds of the model.                                                    *)
(***************************************************************************)
\* item identifiers are 1..MaxId
MaxId == 2
\* storeVector / embedContent / findSimilar calls awaiting the Embedding Source
MaxCalls == 2
\* the clock (new Date()) runs over 0..MaxTime
MaxTime == 1
\* the dimension of a local embedding: the model's VECTOR_DIMENSION (1536 in
\* VectorStore.ts:28), scaled down
VecDim == 2
\* simpleHash folds its 32-bit result into 0..HashSpace-1 here
HashSpace == 2
\* the longest item list handed to storeBatch
MaxBatch == 6
\* recommendationHistory is cut beyond this many results (1000 in the code)
HistoryLimit == 4
\* the recommends a caller makes while the history is followed
MaxRecommends == 2
\* the most interactions recorded for one item
MaxInteractions == 2

(***************************************************************************)
(* Program constants.                                                      *)
(***************************************************************************)
\* one, in fixed point
Unit == 10 * 10 * 10
\* 0.7
SIMILARITY_THRESHOLD == (7 * Unit) \div 10
batchSize == 5
contentSummaryLength == 500
embeddingInputLimit == 8000
maxIterations == 100
\* 0.001
convergenceEpsilon == Unit \div 1000

(***************************************************************************)
(* Arithmetic                                                              *)
(***************************************************************************)
Min(a, b) == IF a <= b THEN a ELSE b
Max(a, b) == IF a >= b THEN a ELSE b

\* NaN: not an integer any computation of the model can produce
NaN == 0 - 1000000000
IsNaN(x) == x = NaN
NAdd(x, y) == IF IsNaN(x) \/ IsNaN(y) THEN NaN ELSE x + y
NSub(x, y) == IF IsNaN(x) \/ IsNaN(y) THEN NaN ELSE x - y
\* the product of two fixed-point numbers is in Unit * Unit; callers rescale
NSquare(x) == IF IsNaN(x) THEN NaN ELSE x * x
\* x / n for a count n > 0
NDivCount(x, n) == IF IsNaN(x) THEN NaN ELSE x \div n
\* every comparison with NaN is false
NLess(x, y) == ~IsNaN(x) /\ ~IsNaN(y) /\ x < y
NGreater(x, y) == ~IsNaN(x) /\ ~IsNaN(y) /\ x > y

RECURSIVE SqrtSearch(_, _, _)
SqrtSearch(n, lo, hi) ==
    IF lo >= hi THEN lo
    ELSE LET mid == (lo + hi + 1) \div 2
         IN  IF mid * mid <= n THEN SqrtSearch(n, mid, hi)
             ELSE SqrtSearch(n, lo, mid - 1)
\* Math.sqrt on a number in Unit * Unit, giving a number in Unit
Sqrt(n) == IF IsNaN(n) THEN NaN ELSE SqrtSearch(n, 0, Min(n, 46340))

RECURSIVE SumSeq(_)
SumSeq(s) == IF s = <<>> THEN 0 ELSE NAdd(Head(s), SumSeq(Tail(s)))

(***************************************************************************)
(* Text                                                                    *)
(***************************************************************************)
\* the empty string is one string, whatever it was cut from
Text(b, n) == IF n <= 0 THEN [base |-> 0, len |-> 0] ELSE [base |-> b, len |-> n]
EmptyString == Text(0, 0)
\* String.prototype.substring(0, n)
Substring(t, n) == Text(t.base, Min(t.len, n))

\* simpleHash (VectorStore.ts:468-476): a 32-bit rolling hash of every
\* character of the string, made non-negative; deterministic and many-to-one.
simpleHash(t) == (31 * t.base + t.len) % HashSpace

RECURSIVE ToString36(_)
\* Number.prototype.toString(36) of a non-negative integer: its base-36 digits
ToString36(n) == IF n < 36 THEN <<n>> ELSE Append(ToString36(n \div 36), n % 36)

generateCacheKey(content) == ToString36(simpleHash(content))

(***************************************************************************)
(* JavaScript values that stand where a number[] is expected              *)
(***************************************************************************)
Arr(v) == [tag |-> "array", elems |-> v]
Undefined == [tag |-> "undefined", elems |-> <<>>]
IsArr(x) == x.tag = "array"

(***************************************************************************)
(* Embeddings                                                              *)
(***************************************************************************)
\* unit vectors of dimension VecDim the local embedding can produce
LocalDirections ==
    << <<600, 800>>, <<800, 600>>, <<1000, 0>> >>
PadTo(v, n) == [i \in 1..n |-> IF i <= Len(v) THEN v[i] ELSE 0]

\* generateLocalEmbedding: a deterministic, L2-normalised vector of
\* VECTOR_DIMENSION components computed from the whole content.
generateLocalEmbedding(content) ==
    PadTo(LocalDirections[((content.base + content.len) % 3) + 1], VecDim)

\* what the Embedding Source may answer with: a vector of the local dimension,
\* or one of another dimension (another embedding model)
RemoteSameDim == [i \in 1..VecDim |-> IF i = VecDim THEN 1000 ELSE 0]
RemoteLonger == [i \in 1..(VecDim + 1) |-> IF i = 1 THEN 1000 ELSE 0]
RemoteVectors == {RemoteSameDim, RemoteLonger}

\* The ways one aiProvider.generateEmbedding call can end:
\*   ok          resolves with {embedding: number[]}
\*   throw       rejects (network, credentials, HTTP status)
\*   null        resolves with no response object (response.embedding throws)
\*   noembedding resolves with a response that holds no embedding array
SourceOutcomes ==
    [kind : {"ok"}, vector : RemoteVectors]
        \cup [kind : {"throw", "null", "noembedding"}, vector : {<<>>}]
Unsupported == [kind |-> "unsupported", vector |-> <<>>]

\* generateEmbedding (VectorStore.ts:275-289) once the source has answered
\* with outcome o (Unsupported: supportsEmbedding() was false, no call made)
generateEmbedding(content, o) ==
    CASE o.kind = "unsupported" -> Arr(generateLocalEmbedding(content))
      [] o.kind = "ok"          -> Arr(o.vector)
      [] o.kind = "noembedding" -> Undefined
      [] OTHER                  -> Arr(generateLocalEmbedding(content))

\* the argument generateEmbedding hands to the source
SourceInput(content) == Substring(content, embeddingInputLimit)

(***************************************************************************)
(* Similarity                                                              *)
(***************************************************************************)
RECURSIVE DotProduct(_, _)
DotProduct(a, b) ==
    IF a = <<>> THEN 0 ELSE Head(a) * Head(b) + DotProduct(Tail(a), Tail(b))

\* the exception calculateCosineSimilarity throws, "none" when it returns
CosineError(x1, x2) ==
    IF ~IsArr(x1) \/ ~IsArr(x2) THEN "TypeError"
    ELSE IF Len(x1.elems) # Len(x2.elems) THEN "DimensionMismatch"
    ELSE "none"

\* calculateCosineSimilarity (VectorStore.ts:326-349) on two arrays of one
\* length
calculateCosineSimilarity(x1, x2) ==
    LET v1 == x1.elems
        v2 == x2.elems
        magnitude1 == Sqrt(DotProduct(v1, v1))
        magnitude2 == Sqrt(DotProduct(v2, v2))
    IN  IF magnitude1 = 0 \/ magnitude2 = 0 THEN 0
        ELSE (DotProduct(v1, v2) * Unit) \div (magnitude1 * magnitude2)


(***************************************************************************)
(* The two Maps of VectorStore                                             *)
(*                                                                         *)
(* vectors is the list of the Map's values in insertion order (the order   *)
(* `for ... of this.vectors` and getAllIds visit them in); each value      *)
(* holds its key as .id.  embeddingCache is a function from cache keys.    *)
(***************************************************************************)
EmptyObject == [k \in {} |-> 0]
\* {...a, ...b}
Spread(a, b) ==
    [k \in DOMAIN a \cup DOMAIN b |-> IF k \in DOMAIN b THEN b[k] ELSE a[k]]

MapHas(m, id) == \E i \in 1..Len(m) : m[i].id = id
MapGet(m, id) == m[CHOOSE i \in 1..Len(m) : m[i].id = id]
MapKeys(m) == [i \in 1..Len(m) |-> m[i].id]
\* a Map whose set appends
MapSetAppends(m, data) == Append(m, data)
\* Map.prototype.set: a present key keeps its place and gets the new value
MapSet(m, data) ==
    IF MapHas(m, data.id)
    THEN [i \in 1..Len(m) |-> IF m[i].id = data.id THEN data ELSE m[i]]
    ELSE Append(m, data)
RECURSIVE MapDelete(_, _)
MapDelete(m, id) ==
    IF m = <<>> THEN <<>>
    ELSE IF Head(m).id = id THEN MapDelete(Tail(m), id)
    ELSE <<Head(m)>> \o MapDelete(Tail(m), id)

\* a cache that never reports a hit
CacheNeverHas(cache, content) == FALSE
CacheHas(cache, content) == generateCacheKey(content) \in DOMAIN cache
CacheGet(cache, content) == cache[generateCacheKey(content)]
\* this.embeddingCache.set(cacheKey, vector)
CacheSet(cache, content, vector) ==
    [k \in DOMAIN cache \cup {generateCacheKey(content)} |->
        IF k = generateCacheKey(content) THEN vector ELSE cache[k]]

(***************************************************************************)
(* storeVector                                                             *)
(***************************************************************************)
\* the VectorData storeVector builds (VectorStore.ts:69-78)
VectorDataOf(id, vector, content, metadata, time) ==
    [id |-> id,
     vector |-> vector,
     metadata |-> Spread(metadata,
                         [content |-> Substring(content, contentSummaryLength),
                          contentLength |-> content.len]),
     timestamp |-> time]

\* a store that writes its vector into the record it finds
StoreRecordMerges(m, data) ==
    IF MapHas(m, data.id)
    THEN MapSet(m, [MapGet(m, data.id) EXCEPT !.vector = data.vector])
    ELSE MapSet(m, data)
\* this.vectors.set(id, vectorData) (VectorStore.ts:80)
StoreRecord(m, data) == MapSet(m, data)

(***************************************************************************)
(* Similarity search                                                       *)
(***************************************************************************)
\* a || b on a field of a metadata bag: the field's value, or the default
\* when the bag has no such field
FieldOr(metadata, field, default) ==
    IF field \in DOMAIN metadata THEN metadata[field] ELSE default

\* createContextItemFromVector (VectorStore.ts:501-516) on a stored record
ContextItemOf(vectorData) ==
    [id |-> vectorData.id,
     type |-> FieldOr(vectorData.metadata, "type", "text"),
     title |-> FieldOr(vectorData.metadata, "title", "unknown"),
     content |-> FieldOr(vectorData.metadata, "content", EmptyString),
     preview |-> Substring(FieldOr(vectorData.metadata, "content", EmptyString), 100),
     timestamp |-> vectorData.timestamp,
     metadata |-> vectorData.metadata]
createContextItemFromVector(m, id) == ContextItemOf(MapGet(m, id))

Returns(v) == [threw |-> "none", value |-> v]
Throws(e) == [threw |-> e, value |-> <<>>]

\* a scan that skips nothing
ScanEverything(m, skipId) == m
\* the records a scan compares the query with: all of them, or all but skipId
ScanList(m, skipId) == SelectSeq(m, LAMBDA d : d.id # skipId)

\* the first exception the scan loop meets, "none" when it meets none
RECURSIVE ScanError(_, _)
ScanError(list, queryVector) ==
    IF list = <<>> THEN "none"
    ELSE IF CosineError(queryVector, Head(list).vector) # "none"
         THEN CosineError(queryVector, Head(list).vector)
         ELSE ScanError(Tail(list), queryVector)

\* if (similarity >= threshold) similarities.push(...)
KeepSimilar(similarity, threshold) == similarity >= threshold

\* the loops of VectorStore.ts:115-125 and 156-168 when nothing throws
RECURSIVE ScanSimilar(_, _, _)
ScanSimilar(list, queryVector, threshold) ==
    IF list = <<>> THEN <<>>
    ELSE LET d == Head(list)
             similarity == calculateCosineSimilarity(queryVector, d.vector)
             rest == ScanSimilar(Tail(list), queryVector, threshold)
         IN  IF KeepSimilar(similarity, threshold)
             THEN <<[id |-> d.id, similarity |-> similarity, vector |-> d.vector]>>
                      \o rest
             ELSE rest

\* a comparator that sorts by increasing similarity
CompareAscending(a, b) == a.similarity - b.similarity
\* the comparator (a, b) => b.similarity - a.similarity: negative when a goes first
CompareSimilarity(a, b) == b.similarity - a.similarity

\* Array.prototype.sort is stable: x goes behind everything it does not precede
RECURSIVE InsertSorted(_, _)
InsertSorted(sorted, x) ==
    IF sorted = <<>> THEN <<x>>
    ELSE IF CompareSimilarity(x, Head(sorted)) < 0 THEN <<x>> \o sorted
    ELSE <<Head(sorted)>> \o InsertSorted(Tail(sorted), x)
RECURSIVE SortBySimilarity(_)
SortBySimilarity(list) ==
    IF list = <<>> THEN <<>>
    ELSE InsertSorted(SortBySimilarity(SubSeq(list, 1, Len(list) - 1)),
                      list[Len(list)])

\* Array.prototype.slice(0, n)
SliceTo(list, n) ==
    IF n >= 0 THEN SubSeq(list, 1, Min(n, Len(list)))
    ELSE SubSeq(list, 1, Max(0, Len(list) + n))

\* sort, slice and map of VectorStore.ts:127-138 and 170-178
TopSimilar(m, similarities, limit) ==
    LET top == SliceTo(SortBySimilarity(similarities), limit)
    IN  [i \in 1..Len(top) |->
            [item |-> createContextItemFromVector(m, top[i].id),
             similarity |-> top[i].similarity,
             vector |-> top[i].vector]]

\* findSimilar (VectorStore.ts:106-139) once the query is embedded
findSimilar(m, queryVector, threshold, limit) ==
    IF ScanError(m, queryVector) # "none" THEN Throws(ScanError(m, queryVector))
    ELSE Returns(TopSimilar(m, ScanSimilar(m, queryVector, threshold), limit))

\* a findSimilarById that answers an id without a record with no result
findSimilarByIdLenient(m, id, threshold, limit) ==
    IF ~MapHas(m, id) THEN Returns(<<>>)
    ELSE LET queryVector == MapGet(m, id).vector
             others == ScanList(m, id)
         IN  IF ScanError(others, queryVector) # "none"
             THEN Throws(ScanError(others, queryVector))
             ELSE Returns(TopSimilar(m, ScanSimilar(others, queryVector, threshold),
                                     limit))
\* findSimilarById (VectorStore.ts:144-179)
findSimilarById(m, id, threshold, limit) ==
    IF ~MapHas(m, id) THEN Throws("NotFound")
    ELSE LET queryVector == MapGet(m, id).vector
             others == ScanList(m, id)
         IN  IF ScanError(others, queryVector) # "none"
             THEN Throws(ScanError(others, queryVector))
             ELSE Returns(TopSimilar(m, ScanSimilar(others, queryVector, threshold),
                                     limit))

(***************************************************************************)
(* Clustering                                                              *)
(***************************************************************************)
\* calculateEuclideanDistance (VectorStore.ts:419-425): the loop runs over
\* vector1; a component vector2 lacks reads as undefined and makes the sum NaN
calculateEuclideanDistance(vector1, vector2) ==
    Sqrt(SumSeq([i \in 1..Len(vector1) |->
                    IF i <= Len(vector2)
                    THEN NSquare(NSub(vector1[i], vector2[i]))
                    ELSE NaN]))

RECURSIVE MaxLen(_)
MaxLen(list) == IF list = <<>> THEN 0 ELSE Max(Len(Head(list)), MaxLen(Tail(list)))

\* calculateCentroid (VectorStore.ts:430-446): the sums start as
\* VECTOR_DIMENSION zeros; a component past them starts as undefined
calculateCentroid(list) ==
    IF list = <<>> THEN [i \in 1..VecDim |-> 0]
    ELSE [i \in 1..Max(VecDim, MaxLen(list)) |->
            IF i > VecDim THEN NaN
            ELSE NDivCount(SumSeq([j \in 1..Len(list) |->
                                      IF i <= Len(list[j]) THEN list[j][i] ELSE 0]),
                           Len(list))]

\* calculateClusterCoherence (VectorStore.ts:451-463)
calculateClusterCoherence(points, centroid) ==
    IF points = <<>> THEN 0
    ELSE LET totalDistance ==
                 SumSeq([j \in 1..Len(points) |->
                            calculateEuclideanDistance(points[j].vector.elems,
                                                       centroid)])
             averageDistance == NDivCount(totalDistance, Len(points))
         IN  IF IsNaN(averageDistance) THEN NaN
             ELSE Max(0, Unit - averageDistance)

\* the inner loop of VectorStore.ts:379-388: the first centroid at the least
\* distance; centroid 1 when no distance compares below Infinity
RECURSIVE BestFrom(_, _, _, _, _)
BestFrom(vector, centroids, i, bestIndex, bestDistance) ==
    IF i > Len(centroids) THEN bestIndex
    ELSE LET distance == calculateEuclideanDistance(vector, centroids[i])
         IN  IF ~IsNaN(distance) /\ (bestDistance < 0 \/ distance < bestDistance)
             THEN BestFrom(vector, centroids, i + 1, i, distance)
             ELSE BestFrom(vector, centroids, i + 1, bestIndex, bestDistance)
\* bestDistance -1 stands for Infinity
bestClusterIndex(vector, centroids) == BestFrom(vector, centroids, 1, 1, 0 - 1)

\* the assignment step (VectorStore.ts:372-391): the points of cluster i, in
\* the order of `vectors`
AssignPoints(list, centroids) ==
    [i \in 1..Len(centroids) |->
        SelectSeq(list, LAMBDA d : bestClusterIndex(d.vector.elems, centroids) = i)]

PointVectors(points) == [j \in 1..Len(points) |-> points[j].vector.elems]

\* the update step (VectorStore.ts:394-408): an empty cluster keeps its centroid
UpdateCentroids(centroids, points) ==
    [i \in 1..Len(centroids) |->
        IF points[i] = <<>> THEN centroids[i]
        ELSE calculateCentroid(PointVectors(points[i]))]

\* distance > 0.001 for no cluster that has points
Converged(centroids, points) ==
    \A i \in 1..Len(centroids) :
        points[i] = <<>>
        \/ ~NGreater(calculateEuclideanDistance(
                         centroids[i], calculateCentroid(PointVectors(points[i]))),
                     convergenceEpsilon)

\* the clusters the loop leaves behind when it ends
ClustersOf(centroids, points) ==
    [i \in 1..Len(centroids) |-> [centroid |-> centroids[i], points |-> points[i]]]

\* the while loop of kMeansClustering (VectorStore.ts:370-411): one round
\* with the points assigned, then the next
RECURSIVE kMeansRound(_, _, _, _)
kMeansLoop(list, centroids, iterations) ==
    kMeansRound(list, centroids, iterations, AssignPoints(list, centroids))
kMeansRound(list, centroids, iterations, points) ==
    IF Converged(centroids, points) \/ iterations + 1 >= maxIterations
    THEN ClustersOf(UpdateCentroids(centroids, points), points)
    ELSE kMeansLoop(list, UpdateCentroids(centroids, points), iterations + 1)

\* kMeansClustering (VectorStore.ts:354-414); randomIndex[i] is the i-th
\* Math.floor(Math.random() * vectors.length), counted from 1
kMeansClustering(list, k, randomIndex) ==
    IF \E i \in 1..k : ~IsArr(list[randomIndex[i]].vector)
    THEN Throws("TypeError")   \* [...undefined]
    ELSE IF list # <<>> /\ (k = 0 \/ \E j \in 1..Len(list) : ~IsArr(list[j].vector))
    THEN Throws("TypeError")   \* clusters[0] of no cluster; undefined.length
    ELSE Returns(kMeansLoop(list,
                            [i \in 1..k |-> list[randomIndex[i]].vector.elems], 0))

\* a test that lets k-means run on n = k - 1 points, when there is a point
TooFewPointsByTwo(n, k) == n + 1 < k \/ n = 0
\* if (vectorList.length < k): every point a cluster of its own
TooFewPoints(n, k) == n < k

\* performClustering (VectorStore.ts:184-206)
performClustering(m, k, randomIndex) ==
    IF TooFewPoints(Len(m), k)
    THEN Returns([index \in 1..Len(m) |->
                     [clusterId |-> index - 1,
                      items |-> <<ContextItemOf(m[index])>>,
                      centroid |-> m[index].vector,
                      coherence |-> Unit]])
    ELSE LET clusters == kMeansClustering(m, k, randomIndex)
         IN  IF clusters.threw # "none" THEN clusters
             ELSE Returns([index \in 1..Len(clusters.value) |->
                     [clusterId |-> index - 1,
                      items |-> [j \in 1..Len(clusters.value[index].points) |->
                                    ContextItemOf(clusters.value[index].points[j])],
                      centroid |-> Arr(clusters.value[index].centroid),
                      coherence |-> calculateClusterCoherence(
                                        clusters.value[index].points,
                                        clusters.value[index].centroid)]])

(***************************************************************************)
(* State                                                                   *)
(***************************************************************************)
VARIABLES
    vectors,         \* VectorStore.vectors
    embeddingCache,  \* VectorStore.embeddingCache
    calls,           \* the calls suspended on aiProvider.generateEmbedding
    now,             \* the clock new Date() reads
    ret,             \* what the operation that completed last returned
    lastWrite,       \* per stored id, what the storeVector that wrote it held
    firstEmbed,      \* the first embedContent resolved since the cache was empty
    batch,           \* the storeBatch call in progress: its items and its place
    userPreferences,        \* RecommendationEngine.userPreferences
    usageHistory,           \* RecommendationEngine.usageHistory
    recommendationHistory   \* RecommendationEngine.recommendationHistory

engineVars == <<userPreferences, usageHistory, recommendationHistory>>
vars == <<vectors, embeddingCache, calls, now, ret, lastWrite, firstEmbed, batch,
          engineVars>>

Ids == 1..MaxId
NoReturn == [op |-> "none"]
NoBatch == [state |-> "none"]

\* getDefaultPreferences (part_003:753-761)
getDefaultPreferences ==
    [preferredTypes |-> <<"code", "qa", "json">>,
     timePreference |-> "recent",
     complexityPreference |-> "medium",
     topicInterests |-> <<>>,
     languagePreferences |-> <<"typescript", "javascript", "python">>]

\* calls is a bag: suspended calls have no order, and two may be alike
AwaitingCalls == BagToSet(calls)
NoCallInFlight == calls = EmptyBag

Init ==
    /\ vectors = <<>>
    /\ embeddingCache = EmptyObject
    /\ calls = EmptyBag
    /\ now = 0
    /\ ret = NoReturn
    /\ lastWrite = EmptyObject
    /\ firstEmbed = NoReturn
    /\ batch = NoBatch
    /\ userPreferences = getDefaultPreferences
    /\ usageHistory = <<>>
    /\ recommendationHistory = <<>>

(***************************************************************************)
(* embedContent and storeVector                                            *)
(*                                                                         *)
(* A call runs to its first await inside the task that made it.  On a      *)
(* cache hit, and when supportsEmbedding() is false, every await it meets  *)
(* is on a promise that is already settled, so it finishes in the          *)
(* microtasks of that same task: one step.  Otherwise it is suspended on   *)
(* the source's answer, and finishes in the task that delivers the answer. *)
(***************************************************************************)
One(k, v) == [x \in {k} |-> v]
Without(f, k) == [x \in DOMAIN f \ {k} |-> f[x]]

\* embedContent (VectorStore.ts:38-61) resolves with `vector` for `content`
LogEmbed(content, vector) ==
    firstEmbed' = IF firstEmbed.op = "none"
                  THEN [op |-> "embedContent", content |-> content,
                        value |-> vector]
                  ELSE firstEmbed

\* the rest of storeVector (VectorStore.ts:69-80) once embedContent resolved
\* with `vector`, leaving the cache cache1
FinishStore(id, content, metadata, vector, src, cache1) ==
    /\ vectors' = StoreRecord(vectors,
                              VectorDataOf(id, vector, content, metadata, now))
    /\ embeddingCache' = cache1
    /\ lastWrite' = Spread(lastWrite,
                           One(id, [vector |-> vector, content |-> content,
                                    metadata |-> metadata, time |-> now]))
    /\ LogEmbed(content, vector)
    /\ ret' = [op |-> "storeVector", id |-> id, src |-> src, value |-> vector,
               cached |-> CacheGet(cache1, content),
               stored |-> MapGet(vectors', id).vector,
               replaced |-> IF MapHas(vectors, id)
                            THEN MapGet(vectors, id).metadata.contentLength
                            ELSE 0 - 1]

\* embedContent called on its own resolves
FinishEmbed(content, vector, src, cache1) ==
    /\ embeddingCache' = cache1
    /\ LogEmbed(content, vector)
    /\ ret' = [op |-> "embedContent", content |-> content, src |-> src,
               value |-> vector, cached |-> CacheGet(cache1, content)]
    /\ UNCHANGED <<vectors, lastWrite>>

\* the call is suspended on aiProvider.generateEmbedding(content.substring(0, 8000))
Suspend(call) ==
    /\ BagCardinality(calls) < MaxCalls
    /\ calls' = calls (+) SetToBag({call})
    /\ UNCHANGED <<vectors, embeddingCache, ret, lastWrite, firstEmbed>>

\* storeVector(id, content, metadata) is called (VectorStore.ts:66-67)
StoreVector(id, content, metadata) ==
    /\ UNCHANGED <<batch, engineVars>>
    /\ UNCHANGED now
    /\ IF CacheHas(embeddingCache, content)
       THEN /\ FinishStore(id, content, metadata,
                           CacheGet(embeddingCache, content), "cache",
                           embeddingCache)
            /\ UNCHANGED calls
       ELSE \E supportsEmbedding \in BOOLEAN :
              IF supportsEmbedding
              THEN Suspend([op |-> "storeVector", id |-> id,
                            content |-> content, metadata |-> metadata,
                            sent |-> SourceInput(content)])
              ELSE LET vector == generateEmbedding(content, Unsupported)
                   IN  /\ FinishStore(id, content, metadata, vector,
                                      "unsupported",
                                      CacheSet(embeddingCache, content, vector))
                       /\ UNCHANGED calls

\* embedContent(content) is called (VectorStore.ts:38-48)
EmbedContent(content) ==
    /\ UNCHANGED <<batch, engineVars>>
    /\ UNCHANGED now
    /\ IF CacheHas(embeddingCache, content)
       THEN /\ FinishEmbed(content, CacheGet(embeddingCache, content), "cache",
                           embeddingCache)
            /\ UNCHANGED calls
       ELSE \E supportsEmbedding \in BOOLEAN :
              IF supportsEmbedding
              THEN Suspend([op |-> "embedContent", content |-> content,
                            sent |-> SourceInput(content)])
              ELSE LET vector == generateEmbedding(content, Unsupported)
                   IN  /\ FinishEmbed(content, vector, "unsupported",
                                      CacheSet(embeddingCache, content, vector))
                       /\ UNCHANGED calls

\* findSimilar resolves or rejects, the query embedded as queryVector
FinishFindSimilar(content, threshold, limit, queryVector, src, cache1) ==
    /\ embeddingCache' = cache1
    /\ LogEmbed(content, queryVector)
    /\ ret' = [op |-> "findSimilar", content |-> content,
               queryVector |-> queryVector, threshold |-> threshold,
               limit |-> limit, src |-> src]
              @@ findSimilar(vectors, queryVector, threshold, limit)
    /\ UNCHANGED <<vectors, lastWrite>>

\* findSimilar(queryContent, threshold, limit) is called (VectorStore.ts:106-111)
FindSimilar(content, threshold, limit) ==
    /\ UNCHANGED <<batch, engineVars>>
    /\ UNCHANGED now
    /\ IF CacheHas(embeddingCache, content)
       THEN /\ FinishFindSimilar(content, threshold, limit,
                                 CacheGet(embeddingCache, content), "cache",
                                 embeddingCache)
            /\ UNCHANGED calls
       ELSE \E supportsEmbedding \in BOOLEAN :
              IF supportsEmbedding
              THEN Suspend([op |-> "findSimilar", content |-> content,
                            threshold |-> threshold, limit |-> limit,
                            sent |-> SourceInput(content)])
              ELSE LET vector == generateEmbedding(content, Unsupported)
                   IN  /\ FinishFindSimilar(content, threshold, limit, vector,
                                            "unsupported",
                                            CacheSet(embeddingCache, content, vector))
                       /\ UNCHANGED calls

\* the Embedding Source answers the suspended call with outcome o, and the
\* call runs to its end
SourceResponds(call, o) ==
    /\ UNCHANGED <<batch, engineVars>>
    /\ call.op \in {"storeVector", "embedContent", "findSimilar"}
    /\ LET vector == generateEmbedding(call.content, o)
           cache1 == CacheSet(embeddingCache, call.content, vector)
       IN  CASE call.op = "storeVector" ->
                  FinishStore(call.id, call.content, call.metadata, vector,
                              o.kind, cache1)
             [] call.op = "embedContent" ->
                  FinishEmbed(call.content, vector, o.kind, cache1)
             [] call.op = "findSimilar" ->
                  FinishFindSimilar(call.content, call.threshold, call.limit,
                                    vector, o.kind, cache1)
    /\ calls' = calls (-) SetToBag({call})
    /\ UNCHANGED now

\* findSimilarById(id, threshold, limit): no await, it runs to its end
FindSimilarById(id, threshold, limit) ==
    /\ UNCHANGED <<batch, engineVars>>
    /\ ret' = [op |-> "findSimilarById", id |-> id, threshold |-> threshold,
               limit |-> limit]
              @@ findSimilarById(vectors, id, threshold, limit)
    /\ UNCHANGED <<vectors, embeddingCache, calls, now, lastWrite, firstEmbed>>

\* performClustering(k), its Math.random() draws being randomIndex
PerformClustering(k, randomIndex) ==
    /\ UNCHANGED <<batch, engineVars>>
    /\ ret' = [op |-> "performClustering", k |-> k, randomIndex |-> randomIndex]
              @@ performClustering(vectors, k, randomIndex)
    /\ UNCHANGED <<vectors, embeddingCache, calls, now, lastWrite, firstEmbed>>

\* a deleteVector that also cancels the stores of the id that are in flight
DeleteVectorCancels(id) ==
    /\ UNCHANGED <<batch, engineVars>>
    /\ vectors' = MapDelete(vectors, id)
    /\ lastWrite' = Without(lastWrite, id)
    /\ ret' = [op |-> "deleteVector", id |-> id, value |-> MapHas(vectors, id)]
    /\ calls' = [c \in {a \in AwaitingCalls : ~(a.op = "storeVector" /\ a.id = id)}
                    |-> calls[c]]
    /\ UNCHANGED <<embeddingCache, now, firstEmbed>>
\* deleteVector (VectorStore.ts:218-220)
DeleteVector(id) ==
    /\ UNCHANGED <<batch, engineVars>>
    /\ vectors' = MapDelete(vectors, id)
    /\ lastWrite' = Without(lastWrite, id)
    /\ ret' = [op |-> "deleteVector", id |-> id, value |-> MapHas(vectors, id)]
    /\ UNCHANGED <<embeddingCache, calls, now, firstEmbed>>

\* clearCache (VectorStore.ts:260-262)
ClearCache ==
    /\ UNCHANGED <<batch, engineVars>>
    /\ embeddingCache' = EmptyObject
    /\ firstEmbed' = NoReturn
    /\ ret' = [op |-> "clearCache"]
    /\ UNCHANGED <<vectors, calls, now, lastWrite>>

\* clear (VectorStore.ts:267-270)
Clear ==
    /\ UNCHANGED <<batch, engineVars>>
    /\ vectors' = <<>>
    /\ embeddingCache' = EmptyObject
    /\ lastWrite' = EmptyObject
    /\ firstEmbed' = NoReturn
    /\ ret' = [op |-> "clear"]
    /\ UNCHANGED <<calls, now>>

\* time passes
Tick ==
    /\ UNCHANGED <<batch, engineVars>>
    /\ now < MaxTime
    /\ now' = now + 1
    /\ UNCHANGED <<vectors, embeddingCache, calls, ret, lastWrite, firstEmbed>>

(***************************************************************************)
(* storeBatch                                                              *)
(*                                                                         *)
(* batch.map(item => this.storeVector(...)) calls storeVector for every    *)
(* item of the chunk before any of them continues, so every item of a      *)
(* chunk looks into the cache as it is when the chunk starts.  The calls   *)
(* that hit the cache continue first (fewest awaits), then, when           *)
(* supportsEmbedding() is false, the calls that embed locally; all within  *)
(* the task that started the chunk.  The others wait for the source.  When *)
(* the last call of a chunk has stored, Promise.all resolves and the loop  *)
(* starts the next chunk within that same task.                            *)
(***************************************************************************)
\* the metadata storeBatch passes for an item (VectorStore.ts:91-95)
BatchMetadata(item) ==
    [type |-> item.type, title |-> item.title, timestamp |-> item.timestamp]

\* a slice that takes one item more
ChunkEndOneMore(start, n) == Min(start + batchSize, n)
\* items.slice(i, i + batchSize): the index of its last item, counted from 1
ChunkEnd(start, n) == Min(start + batchSize - 1, n)
Chunk(items, start) == start..ChunkEnd(start, Len(items))

RECURSIVE Ascending(_)
Ascending(S) ==
    IF S = {} THEN <<>>
    ELSE LET least == CHOOSE x \in S : \A y \in S : x <= y
         IN  <<least>> \o Ascending(S \ {least})

\* the index as a storeBatch in progress sees it, with the items it has
\* started and stored so far
IndexState(started, stored) ==
    [vectors |-> vectors, embeddingCache |-> embeddingCache,
     lastWrite |-> lastWrite, firstEmbed |-> firstEmbed,
     started |-> started, stored |-> stored]

\* the storeVector of item i completes with `vector`, leaving the cache cache1
StoreItem(st, items, i, vector, cache1) ==
    [vectors |-> StoreRecord(st.vectors,
                             VectorDataOf(items[i].id, vector, items[i].content,
                                          BatchMetadata(items[i]), now)),
     embeddingCache |-> cache1,
     lastWrite |-> Spread(st.lastWrite,
                          One(items[i].id,
                              [vector |-> vector, content |-> items[i].content,
                               metadata |-> BatchMetadata(items[i]),
                               time |-> now])),
     firstEmbed |-> IF st.firstEmbed.op = "none"
                    THEN [op |-> "embedContent", content |-> items[i].content,
                          value |-> vector]
                    ELSE st.firstEmbed,
     started |-> st.started,
     stored |-> st.stored \cup {i}]

\* the calls of `order` complete one after the other: from the cache as it
\* was when the chunk started (hit), or with the local embedding
RECURSIVE StoreEach(_, _, _, _, _)
StoreEach(st, items, order, cache0, hit) ==
    IF order = <<>> THEN st
    ELSE LET i == Head(order)
             vector == IF hit THEN CacheGet(cache0, items[i].content)
                       ELSE generateEmbedding(items[i].content, Unsupported)
             cache1 == IF hit THEN st.embeddingCache
                       ELSE CacheSet(st.embeddingCache, items[i].content, vector)
         IN  StoreEach(StoreItem(st, items, i, vector, cache1), items,
                       Tail(order), cache0, hit)

\* the for loop of storeBatch (VectorStore.ts:89-100) from the chunk at
\* `start` up to the first chunk that has to wait for the source
RECURSIVE RunChunks(_, _, _, _)
RunChunks(st, items, start, supportsEmbedding) ==
    IF start > Len(items)
    THEN [st |-> st, start |-> start, pending |-> {}, suspended |-> {}]
    ELSE LET chunk == Chunk(items, start)
             cache0 == st.embeddingCache
             hits == {i \in chunk : CacheHas(cache0, items[i].content)}
             misses == chunk \ hits
             st0 == [st EXCEPT !.started = @ \cup chunk]
             st1 == StoreEach(st0, items, Ascending(hits), cache0, TRUE)
             st2 == IF supportsEmbedding THEN st1
                    ELSE StoreEach(st1, items, Ascending(misses), cache0, FALSE)
         IN  IF supportsEmbedding /\ misses # {}
             THEN [st |-> st2, start |-> start, pending |-> misses,
                   suspended |-> misses]
             ELSE RunChunks(st2, items, start + batchSize, supportsEmbedding)

\* the storeVector call of item i, suspended on the source
BatchCall(items, i) ==
    [op |-> "storeBatch", index |-> i, id |-> items[i].id,
     content |-> items[i].content, sent |-> SourceInput(items[i].content)]

\* the loop has run up to r, suspending the calls r.suspended: the index,
\* the suspended calls and the batch
BatchRanTo(r, items, supportsEmbedding, calls0) ==
    /\ vectors' = r.st.vectors
    /\ embeddingCache' = r.st.embeddingCache
    /\ lastWrite' = r.st.lastWrite
    /\ firstEmbed' = r.st.firstEmbed
    /\ calls' = calls0 (+) SetToBag({BatchCall(items, i) : i \in r.suspended})
    /\ batch' = [state |-> IF r.pending = {} THEN "resolved" ELSE "running",
                 items |-> items, start |-> r.start, pending |-> r.pending,
                 supportsEmbedding |-> supportsEmbedding,
                 started |-> r.st.started, stored |-> r.st.stored]
    /\ ret' = IF r.pending = {}
              THEN [op |-> "storeBatch", items |-> items]
              ELSE ret
    /\ UNCHANGED <<now, engineVars>>

\* storeBatch(items) is called (VectorStore.ts:86-101)
StoreBatch(items, supportsEmbedding) ==
    /\ batch.state # "running"
    /\ BatchRanTo(RunChunks(IndexState({}, {}), items, 1, supportsEmbedding),
                  items, supportsEmbedding, calls)

\* the source answers the suspended storeVector of one item of the batch
BatchItemResponds(call, o) ==
    /\ call.op = "storeBatch"
    /\ LET items == batch.items
           vector == generateEmbedding(call.content, o)
           st1 == StoreItem(IndexState(batch.started, batch.stored), items,
                            call.index, vector,
                            CacheSet(embeddingCache, call.content, vector))
           pending1 == batch.pending \ {call.index}
       IN  BatchRanTo(IF pending1 = {}
                      THEN RunChunks(st1, items, batch.start + batchSize,
                                     batch.supportsEmbedding)
                      ELSE [st |-> st1, start |-> batch.start,
                            pending |-> pending1, suspended |-> {}],
                      items, batch.supportsEmbedding,
                      calls (-) SetToBag({call}))

(***************************************************************************)
(* RecommendationEngine: scores                                            *)
(*                                                                         *)
(* Scores are thousandths, the clock counts days.  A text of base 2 reads  *)
(* as code (control structures, functions and braces at a fixed density),  *)
(* a text of any other base as prose; a text mentions the topic that is    *)
(* its base.                                                               *)
(***************************************************************************)
\* x * w for a weight w given in thousandths
Weighted(x, w) == (x * w) \div Unit
\* Array.prototype.includes
Includes(list, x) == \E i \in 1..Len(list) : list[i] = x
Has(object, field) == field \in DOMAIN object
\* request.userPreferences?.field || this.userPreferences.field
PreferenceOf(request, prefs, field) ==
    IF Has(request, "userPreferences") /\ Has(request.userPreferences, field)
    THEN request.userPreferences[field]
    ELSE prefs[field]
\* request.userPreferences || this.userPreferences
PreferencesOf(request, prefs) ==
    IF Has(request, "userPreferences") THEN request.userPreferences ELSE prefs

\* createContextItemFromVector of the engine (part_003:848-858)
EngineContextItemOf(vectorData) ==
    [id |-> vectorData.id,
     type |-> FieldOr(vectorData.metadata, "type", "text"),
     title |-> FieldOr(vectorData.metadata, "title", "unknown"),
     content |-> FieldOr(vectorData.metadata, "content", EmptyString),
     preview |-> Substring(FieldOr(vectorData.metadata, "content", EmptyString), 100),
     timestamp |-> vectorData.timestamp,
     metadata |-> vectorData.metadata]

\* days between the item's timestamp and new Date()
DaysSince(item, time) == time - item.timestamp

\* calculateTemporalScore (part_003:421-437)
calculateTemporalScore(item, request, prefs, time) ==
    LET timePreference == PreferenceOf(request, prefs, "timePreference")
        daysSinceCreation == DaysSince(item, time)
    IN  CASE timePreference = "recent" ->
               Max(0, Unit - (daysSinceCreation * Unit) \div 30)
          [] timePreference = "historical" ->
               Min(Unit, (daysSinceCreation * Unit) \div 30)
          [] OTHER -> Unit \div 2

\* itemText.includes(topic): title + ' ' + content mentions the topic
TextIncludes(item, topic) == item.content.len > 0 /\ item.content.base = topic

\* calculatePreferenceScore (part_003:442-466)
calculatePreferenceScore(item, request, prefs) ==
    LET preferences == PreferencesOf(request, prefs)
        matchingTopics ==
            SelectSeq(preferences.topicInterests,
                      LAMBDA topic : TextIncludes(item, topic))
        typeScore == IF Includes(preferences.preferredTypes, item.type)
                     THEN 300 ELSE 0
        topicScore == Min(400, Len(matchingTopics) * 100)
        languageScore ==
            IF /\ item.type = "code"
               /\ Has(item.metadata, "language")
               /\ Includes(preferences.languagePreferences, item.metadata.language)
            THEN 300 ELSE 0
    IN  Min(Unit, typeScore + topicScore + languageScore)

\* the TypeError of calculatePreferenceScore and getTypeRelevance on
\* preferences that lack a list
PreferencesError(item, request, prefs) ==
    LET preferences == PreferencesOf(request, prefs)
    IN  \/ ~Has(preferences, "preferredTypes")
        \/ ~Has(preferences, "topicInterests")
        \/ /\ item.type = "code"
           /\ Has(item.metadata, "language")
           /\ ~Has(preferences, "languagePreferences")

\* this.usageHistory.get(itemId)
UsageHas(usage, itemId) == \E i \in 1..Len(usage) : usage[i].itemId = itemId
UsageGet(usage, itemId) == usage[CHOOSE i \in 1..Len(usage) : usage[i].itemId = itemId]

\* calculateUsageScore (part_003:471-483)
calculateUsageScore(usage, itemId) ==
    IF ~UsageHas(usage, itemId) THEN 0
    ELSE LET u == UsageGet(usage, itemId)
             totalInteractions == u.viewCount + u.useCount + u.likeCount
             positiveRatio ==
                 (u.likeCount * Unit) \div Max(1, u.likeCount + u.dislikeCount)
             frequencyScore == Min(Unit, (totalInteractions * Unit) \div 10)
         IN  Weighted(frequencyScore, 700) + Weighted(positiveRatio, 300)

\* calculateQualityScore (part_003:488-508)
calculateQualityScore(item) ==
    LET contentLength == item.content.len
    IN  Min(Unit,
            500
            + (IF contentLength > 100 /\ contentLength < 2000 THEN 200 ELSE 0)
            + (IF item.preview.len > 0 THEN 100 ELSE 0)
            + (IF DOMAIN item.metadata # {} THEN 200 ELSE 0))

\* the matches of the three patterns of calculateCodeComplexity in a text
ControlStructures(code) == IF code.base = 2 THEN code.len \div 40 ELSE 0
FunctionDefinitions(code) == IF code.base = 2 THEN code.len \div 100 ELSE 0
Braces(code) == IF code.base = 2 THEN code.len \div 25 ELSE 0

\* calculateCodeComplexity (part_003:816-832)
calculateCodeComplexity(code) ==
    Min(Unit,
        Min(500, (ControlStructures(code) * Unit) \div 10)
        + Min(300, (FunctionDefinitions(code) * Unit) \div 5)
        + Min(200, (Braces(code) * Unit) \div 20))

\* calculateComplexity (part_003:797-811)
calculateComplexity(item) ==
    Min(Unit,
        Min(400, (item.content.len * Unit) \div 5000)
        + (IF item.type = "code"
           THEN Weighted(calculateCodeComplexity(item.content), 600)
           ELSE 0))

\* getTypeRelevance (part_003:780-783)
getTypeRelevance(type, request, prefs) ==
    IF Includes(PreferencesOf(request, prefs).preferredTypes, type)
    THEN Unit ELSE Unit \div 2

\* calculateFreshness (part_003:788-792)
calculateFreshness(item, time) ==
    Max(0, Unit - (DaysSince(item, time) * Unit) \div 365)

(***************************************************************************)
(* RecommendationEngine: recommend                                         *)
(***************************************************************************)
\* a truthy request.query: present and not the empty string
HasQuery(request) == Has(request, "query") /\ request.query.len > 0
HasContext(request) ==
    Has(request, "currentContext") /\ Len(request.currentContext) > 0

\* determineStrategy (part_003:301-311)
determineStrategy(request) ==
    IF HasQuery(request) THEN "semantic_search"
    ELSE IF HasContext(request) THEN "contextual"
    ELSE IF Has(request, "workingContext") THEN "content_based"
    ELSE "hybrid"

\* deduplicateItems (part_003:766-775): the first item of every id
deduplicateItems(items) ==
    LET kept == {i \in 1..Len(items) :
                    \A j \in 1..(i - 1) : items[j].id # items[i].id}
    IN  [n \in 1..Cardinality(kept) |-> items[Ascending(kept)[n]]]

ItemsOf(similar) == [i \in 1..Len(similar) |-> similar[i].item]

\* candidates.push(...similar.map(s => s.item)), unless a call threw
PushItems(similar, rest) ==
    IF similar.threw # "none" THEN similar
    ELSE IF rest.threw # "none" THEN rest
    ELSE Returns(ItemsOf(similar.value) \o rest.value)

\* the loop of the contextual case (part_003:332-335) from context item i on
RECURSIVE ContextCandidates(_, _, _)
ContextCandidates(m, context, i) ==
    IF i > Len(context) THEN Returns(<<>>)
    ELSE IF ~MapHas(m, context[i].id) THEN Throws("NotFound")
    ELSE PushItems(findSimilarById(m, context[i].id, (4 * Unit) \div 10, 20),
                   ContextCandidates(m, context, i + 1))

\* the switch of getCandidates (part_003:322-351)
CandidatesFound(m, request, strategy, queryVector) ==
    CASE strategy = "semantic_search" ->
           PushItems(findSimilar(m, queryVector, Unit \div 2, 50), Returns(<<>>))
      [] strategy = "contextual" ->
           ContextCandidates(m, request.currentContext, 1)
      [] OTHER ->
           Returns([i \in 1..Len(SliceTo(m, 100)) |-> EngineContextItemOf(m[i])])

Deduplicated(found) ==
    IF found.threw # "none" THEN found
    ELSE Returns(deduplicateItems(found.value))

\* getCandidates (part_003:316-356), the query being embedded as queryVector
getCandidates(m, request, strategy, queryVector) ==
    Deduplicated(CandidatesFound(m, request, strategy, queryVector))

\* the semantic component (part_003:395-399): the similarity of the item if
\* it is the one findSimilar(query, 0, 1) returns, else 0
SimilarityIn(similarItems, item) ==
    IF similarItems # <<>> /\ similarItems[1].item.id = item.id
    THEN similarItems[1].similarity
    ELSE 0
SemanticSimilarity(m, item, queryVector) ==
    SimilarityIn(findSimilar(m, queryVector, 0, 1).value, item)

\* calculateItemScore (part_003:387-416): the components in the order they
\* are set
ScoreComponents(m, item, request, prefs, usage, time, queryVector) ==
    (IF HasQuery(request)
     THEN <<[component |-> "semantic",
             value |-> Weighted(SemanticSimilarity(m, item, queryVector), 400)]>>
     ELSE <<>>)
    \o <<[component |-> "temporal",
          value |-> Weighted(calculateTemporalScore(item, request, prefs, time), 200)],
         [component |-> "preference",
          value |-> Weighted(calculatePreferenceScore(item, request, prefs), 200)],
         [component |-> "usage",
          value |-> Weighted(calculateUsageScore(usage, item.id), 100)],
         [component |-> "quality",
          value |-> Weighted(calculateQualityScore(item), 100)]>>

RECURSIVE SumValues(_)
SumValues(components) ==
    IF components = <<>> THEN 0
    ELSE Head(components).value + SumValues(Tail(components))

\* the reason type generateReasons gives a component (part_003:526-566)
ReasonType(component) ==
    CASE component = "semantic" -> "semantic_similarity"
      [] component = "temporal" -> "temporal_relevance"
      [] component = "preference" -> "user_preference"
      [] component = "usage" -> "collaborative_filtering"
      [] OTHER -> "content_based"

\* reasons for the components of 0.1 and more
generateReasonsFromTenth(components) ==
    LET meaningful == SelectSeq(components, LAMBDA c : c.value >= Unit \div 10)
    IN  [i \in 1..Len(meaningful) |->
            [type |-> ReasonType(meaningful[i].component),
             weight |-> meaningful[i].value]]
\* generateReasons (part_003:513-573): a reason per component above 0.1
generateReasons(components) ==
    LET meaningful == SelectSeq(components, LAMBDA c : c.value > Unit \div 10)
    IN  [i \in 1..Len(meaningful) |->
            [type |-> ReasonType(meaningful[i].component),
             weight |-> meaningful[i].value]]

\* calculateRelevanceFactors (part_003:578-608)
calculateRelevanceFactors(item, request, prefs, time) ==
    <<[factor |-> "content_type",
       value |-> getTypeRelevance(item.type, request, prefs), weight |-> 200],
      [factor |-> "freshness",
       value |-> calculateFreshness(item, time), weight |-> 150],
      [factor |-> "complexity",
       value |-> calculateComplexity(item), weight |-> 100]>>

\* the RecommendedItem scoreItems pushes for a candidate (part_003:369-378)
ScoredItem(item, components, request, prefs, time) ==
    [item |-> item,
     score |-> SumValues(components),
     reasons |-> generateReasons(components),
     relevanceFactors |-> calculateRelevanceFactors(item, request, prefs, time)]

\* scoreItems (part_003:361-382)
scoreItems(m, candidates, request, prefs, usage, time, queryVector) ==
    IF \E i \in 1..Len(candidates) : PreferencesError(candidates[i], request, prefs)
    THEN Throws("TypeError")
    ELSE Returns([i \in 1..Len(candidates) |->
            ScoredItem(candidates[i],
                       ScoreComponents(m, candidates[i], request, prefs, usage,
                                       time, queryVector),
                       request, prefs, time)])

\* an applyFilters whose complexity filter a score above 0.7 passes, as it
\* passes the type filter
applyFiltersWithBypass(items, request, prefs) ==
    LET preferredTypes == PreferenceOf(request, prefs, "preferredTypes")
        complexityPref == PreferenceOf(request, prefs, "complexityPreference")
        byScore == SelectSeq(items, LAMBDA x : x.score > Unit \div 10)
        byType ==
            IF Len(preferredTypes) > 0
            THEN SelectSeq(byScore,
                           LAMBDA x : \/ Includes(preferredTypes, x.item.type)
                                      \/ x.score > (7 * Unit) \div 10)
            ELSE byScore
    IN  IF complexityPref = "medium" THEN byType
        ELSE SelectSeq(byType,
                 LAMBDA x :
                     \/ x.score > (7 * Unit) \div 10
                     \/ CASE complexityPref = "simple" ->
                               calculateComplexity(x.item) < Unit \div 2
                          [] complexityPref = "complex" ->
                               calculateComplexity(x.item) > (6 * Unit) \div 10
                          [] OTHER -> TRUE)
\* applyFilters (part_003:613-644)
applyFilters(items, request, prefs) ==
    LET preferredTypes == PreferenceOf(request, prefs, "preferredTypes")
        complexityPref == PreferenceOf(request, prefs, "complexityPreference")
        byScore == SelectSeq(items, LAMBDA x : x.score > Unit \div 10)
        byType ==
            IF Len(preferredTypes) > 0
            THEN SelectSeq(byScore,
                           LAMBDA x : \/ Includes(preferredTypes, x.item.type)
                                      \/ x.score > (7 * Unit) \div 10)
            ELSE byScore
    IN  IF complexityPref = "medium" THEN byType
        ELSE SelectSeq(byType,
                 LAMBDA x :
                     CASE complexityPref = "simple" ->
                            calculateComplexity(x.item) < Unit \div 2
                       [] complexityPref = "complex" ->
                            calculateComplexity(x.item) > (6 * Unit) \div 10
                       [] OTHER -> TRUE)

\* an insertion that puts an item before the items of its own score
RECURSIVE InsertByScoreUnstable(_, _)
InsertByScoreUnstable(sorted, x) ==
    IF sorted = <<>> THEN <<x>>
    ELSE IF Head(sorted).score - x.score <= 0 THEN <<x>> \o sorted
    ELSE <<Head(sorted)>> \o InsertByScoreUnstable(Tail(sorted), x)
\* sortByScore (part_003:649-651): a stable sort by decreasing score
RECURSIVE InsertByScore(_, _)
InsertByScore(sorted, x) ==
    IF sorted = <<>> THEN <<x>>
    ELSE IF Head(sorted).score - x.score < 0 THEN <<x>> \o sorted
    ELSE <<Head(sorted)>> \o InsertByScore(Tail(sorted), x)
RECURSIVE sortByScore(_)
sortByScore(items) ==
    IF items = <<>> THEN <<>>
    ELSE InsertByScore(sortByScore(SubSeq(items, 1, Len(items) - 1)),
                       items[Len(items)])

Scores(items) == [i \in 1..Len(items) |-> items[i].score]

\* generateExplanation (part_003:656-685): the parts the text is made of
generateExplanation(items, strategy) ==
    IF items = <<>> THEN [text |-> "no recommendation matches"]
    ELSE [text |-> "found",
          strategy |-> strategy,
          count |-> Len(items),
          avgScore |-> SumSeq(Scores(items)) \div Len(items),
          topReasons |-> SliceTo(items[1].reasons, 2)]

\* calculateVariance (part_003:837-843)
calculateVariance(values) ==
    IF values = <<>> THEN 0
    ELSE LET mean == SumSeq(values) \div Len(values)
         IN  SumSeq([i \in 1..Len(values) |->
                        ((values[i] - mean) * (values[i] - mean)) \div Unit])
                 \div Len(values)

\* a confidence that weighs the consistency as much as the mean score
calculateOverallConfidenceHeavy(items) ==
    IF items = <<>> THEN 0
    ELSE LET avgScore == SumSeq(Scores(items)) \div Len(items)
             scoreVariance == calculateVariance(Scores(items))
         IN  Weighted(avgScore, 700) + Weighted(Max(0, Unit - scoreVariance), 700)
\* calculateOverallConfidence (part_003:690-701)
calculateOverallConfidence(items) ==
    IF items = <<>> THEN 0
    ELSE LET avgScore == SumSeq(Scores(items)) \div Len(items)
             scoreVariance == calculateVariance(Scores(items))
         IN  Weighted(avgScore, 700) + Weighted(Max(0, Unit - scoreVariance), 300)

\* getAppliedFilters (part_003:706-718)
getAppliedFilters(request) ==
    <<"min_score">>
    \o (IF /\ Has(request, "userPreferences")
           /\ Has(request.userPreferences, "preferredTypes")
           /\ Len(request.userPreferences.preferredTypes) > 0
        THEN <<"content_type">> ELSE <<>>)
    \o (IF /\ Has(request, "userPreferences")
           /\ Has(request.userPreferences, "complexityPreference")
           /\ request.userPreferences.complexityPreference = "medium"
        THEN <<>> ELSE <<"complexity">>)

\* getFallbackRecommendation (part_003:723-736)
getFallbackRecommendation ==
    [items |-> <<>>,
     explanation |-> [text |-> "temporarily unavailable"],
     confidence |-> 0,
     strategy |-> "hybrid",
     metadata |-> [processingTime |-> 0, totalCandidates |-> 0,
                   filtersApplied |-> <<>>, algorithmVersion |-> "1.0.0"]]

\* request.maxResults || 10
MaxResultsOf(request) ==
    IF Has(request, "maxResults") /\ request.maxResults # 0
    THEN request.maxResults ELSE 10

\* the result recommend builds (part_003:122-138) from the final items
ResultOf(finalItems, strategy, request, totalCandidates, processingTime) ==
    [items |-> finalItems,
     explanation |-> generateExplanation(finalItems, strategy),
     confidence |-> calculateOverallConfidence(finalItems),
     strategy |-> strategy,
     metadata |-> [processingTime |-> processingTime,
                   totalCandidates |-> totalCandidates,
                   filtersApplied |-> getAppliedFilters(request),
                   algorithmVersion |-> "1.0.0"]]

\* final items that are sorted and cut but not filtered
FinalItemsUnfiltered(scoredItems, request, prefs) ==
    SliceTo(sortByScore(scoredItems), MaxResultsOf(request))
\* part_003:114-119: filter, sort, cut to maxResults
FinalItems(scoredItems, request, prefs) ==
    SliceTo(sortByScore(applyFilters(scoredItems, request, prefs)),
            MaxResultsOf(request))

\* part_003:111-138 once the items are scored
RecommendScored(scoredItems, request, prefs, strategy, total, elapsed) ==
    IF scoredItems.threw # "none" THEN scoredItems
    ELSE Returns(ResultOf(FinalItems(scoredItems.value, request, prefs),
                          strategy, request, total, elapsed))

\* part_003:108-138 once the candidates are there
RecommendCandidates(m, candidates, request, prefs, usage, t0, time, qv) ==
    IF candidates.threw # "none" THEN candidates
    ELSE RecommendScored(scoreItems(m, candidates.value, request, prefs, usage,
                                    time, qv),
                         request, prefs, determineStrategy(request),
                         Len(candidates.value), time - t0)

\* the try block of recommend (part_003:104-143)
RecommendTry(m, request, prefs, usage, startTime, time, queryVector) ==
    RecommendCandidates(m, getCandidates(m, request, determineStrategy(request),
                                         queryVector),
                        request, prefs, usage, startTime, time, queryVector)

\* a recommend that lets the exception out
Rethrow(outcome) == outcome
\* the catch of recommend and of getRelatedContent (part_003:145-148, 214-217)
CatchAll(outcome) ==
    IF outcome.threw # "none" THEN Returns(getFallbackRecommendation)
    ELSE outcome

\* Array.prototype.slice(-n)
SliceLast(list, n) == SubSeq(list, Max(1, Len(list) - n + 1), Len(list))

\* a recordRecommendation that cuts the history as soon as it is full
recordRecommendationAtLimit(history, result) ==
    LET pushed == Append(history, result)
    IN  IF Len(pushed) >= HistoryLimit
        THEN SliceLast(pushed, HistoryLimit \div 2)
        ELSE pushed
\* recordRecommendation (part_003:741-748): beyond HistoryLimit results the
\* newer half of the limit is kept
recordRecommendation(history, result) ==
    LET pushed == Append(history, result)
    IN  IF Len(pushed) > HistoryLimit
        THEN SliceLast(pushed, HistoryLimit \div 2)
        ELSE pushed

\* recommend resolves with what the try block returned or, caught, threw
RecommendReturns(request, src, cache1, queryVector, tried) ==
    /\ embeddingCache' = cache1
    /\ firstEmbed' = IF src = "none" \/ firstEmbed.op # "none"
                     THEN firstEmbed
                     ELSE [op |-> "embedContent", content |-> request.query,
                           value |-> queryVector]
    /\ recommendationHistory' =
           IF tried.threw = "none"
           THEN recordRecommendation(recommendationHistory, tried.value)
           ELSE recommendationHistory
    /\ ret' = [op |-> "recommend", request |-> request, src |-> src,
               caught |-> tried.threw,
               historyBefore |-> Len(recommendationHistory)] @@ CatchAll(tried)
    /\ UNCHANGED <<vectors, lastWrite, now, batch, userPreferences,
                   usageHistory>>

\* recommend runs from its start, or from the answer of the source, to its
\* end, the query being embedded as queryVector
FinishRecommend(request, startTime, queryVector, src, cache1) ==
    RecommendReturns(request, src, cache1, queryVector,
                     RecommendTry(vectors, request, userPreferences,
                                  usageHistory, startTime, now, queryVector))

\* recommend(request) is called (part_003:100-111)
Recommend(request) ==
    IF ~HasQuery(request)
    THEN /\ FinishRecommend(request, now, Undefined, "none", embeddingCache)
         /\ UNCHANGED calls
    ELSE IF CacheHas(embeddingCache, request.query)
    THEN /\ FinishRecommend(request, now,
                            CacheGet(embeddingCache, request.query), "cache",
                            embeddingCache)
         /\ UNCHANGED calls
    ELSE \E supportsEmbedding \in BOOLEAN :
           IF supportsEmbedding
           THEN /\ BagCardinality(calls) < MaxCalls
                /\ calls' = calls (+) SetToBag({[op |-> "recommend",
                                                 request |-> request,
                                                 content |-> request.query,
                                                 sent |-> SourceInput(request.query),
                                                 startTime |-> now]})
                /\ UNCHANGED <<vectors, embeddingCache, ret, lastWrite,
                               firstEmbed, now, batch, engineVars>>
           ELSE LET vector == generateEmbedding(request.query, Unsupported)
                IN  /\ FinishRecommend(request, now, vector, "unsupported",
                                       CacheSet(embeddingCache, request.query,
                                                vector))
                    /\ UNCHANGED calls

\* the source answers the query embedding a recommend is suspended on
RecommendResponds(call, o) ==
    /\ call.op = "recommend"
    /\ LET vector == generateEmbedding(call.content, o)
       IN  FinishRecommend(call.request, call.startTime, vector, o.kind,
                           CacheSet(embeddingCache, call.content, vector))
    /\ calls' = calls (-) SetToBag({call})

\* recommendByQuery (part_003:154-160): the stored preferences go into the
\* request
RecommendByQuery(query, maxResults) ==
    Recommend([query |-> query, maxResults |-> maxResults,
               userPreferences |-> userPreferences])

\* recommendByContext (part_003:165-174)
RecommendByContext(currentContext, maxResults) ==
    Recommend([currentContext |-> currentContext, maxResults |-> maxResults,
               userPreferences |-> userPreferences])

\* the RecommendedItem getRelatedContent makes of a similarity result
\* (part_003:183-199)
RelatedItem(sim) ==
    [item |-> sim.item,
     score |-> sim.similarity,
     similarity |-> sim.similarity,
     reasons |-> <<[type |-> "semantic_similarity", weight |-> Unit]>>,
     relevanceFactors |-> <<[factor |-> "semantic_similarity",
                             value |-> sim.similarity, weight |-> Unit]>>]

\* the result getRelatedContent returns (part_003:201-212)
RelatedResult(recommendedItems) ==
    [items |-> recommendedItems,
     explanation |-> [text |-> "related content found",
                      count |-> Len(recommendedItems)],
     confidence |-> calculateOverallConfidence(recommendedItems),
     strategy |-> "semantic_search",
     metadata |-> [processingTime |-> 0,
                   totalCandidates |-> Len(recommendedItems),
                   filtersApplied |-> <<"similarity_threshold">>,
                   algorithmVersion |-> "1.0.0"]]

\* the try block of getRelatedContent (part_003:180-213), findSimilarById
\* having answered similarItems
RelatedOf(similarItems) ==
    IF similarItems.threw # "none" THEN similarItems
    ELSE Returns(RelatedResult([i \in 1..Len(similarItems.value) |->
                                   RelatedItem(similarItems.value[i])]))
RelatedTry(m, itemId, maxResults) ==
    RelatedOf(findSimilarById(m, itemId, (6 * Unit) \div 10, maxResults))

\* getRelatedContent resolves with what the try block returned or, caught,
\* threw
RelatedReturns(itemId, maxResults, tried) ==
    ret' = [op |-> "getRelatedContent", itemId |-> itemId,
            maxResults |-> maxResults, caught |-> tried.threw]
           @@ CatchAll(tried)

\* getRelatedContent (part_003:179-218): findSimilarById awaits nothing that
\* is outside the store, the call runs to its end
GetRelatedContent(itemId, maxResults) ==
    /\ RelatedReturns(itemId, maxResults,
                      RelatedTry(vectors, itemId, maxResults))
    /\ UNCHANGED <<vectors, embeddingCache, calls, now, lastWrite, firstEmbed,
                   batch, engineVars>>

\* strategyDistribution of getRecommendationStats (part_003:285-288)
StrategyDistribution(history) ==
    [s \in {history[i].strategy : i \in 1..Len(history)} |->
        Cardinality({i \in 1..Len(history) : history[i].strategy = s})]

\* getRecommendationStats (part_003:266-296)
getRecommendationStats(history) ==
    IF Len(history) = 0
    THEN [totalRecommendations |-> 0, averageConfidence |-> 0,
          strategyDistribution |-> EmptyObject, averageProcessingTime |-> 0]
    ELSE [totalRecommendations |-> Len(history),
          averageConfidence |->
              SumSeq([i \in 1..Len(history) |-> history[i].confidence])
                  \div Len(history),
          strategyDistribution |-> StrategyDistribution(history),
          averageProcessingTime |->
              SumSeq([i \in 1..Len(history) |->
                         history[i].metadata.processingTime])
                  \div Len(history)]

\* getRecommendationStats() is called
GetRecommendationStats ==
    /\ ret' = [op |-> "getRecommendationStats",
               value |-> getRecommendationStats(recommendationHistory)]
    /\ UNCHANGED <<vectors, embeddingCache, calls, now, lastWrite, firstEmbed,
                   batch, engineVars>>

\* an updateUserPreferences that keeps only the fields it is given
UpdateUserPreferencesOnly(preferences) ==
    /\ userPreferences' = preferences
    /\ ret' = [op |-> "updateUserPreferences", preferences |-> preferences]
    /\ UNCHANGED <<vectors, embeddingCache, calls, now, lastWrite, firstEmbed,
                   batch, usageHistory, recommendationHistory>>
\* updateUserPreferences (part_003:223-228)
UpdateUserPreferences(preferences) ==
    /\ userPreferences' = Spread(userPreferences, preferences)
    /\ ret' = [op |-> "updateUserPreferences", preferences |-> preferences]
    /\ UNCHANGED <<vectors, embeddingCache, calls, now, lastWrite, firstEmbed,
                   batch, usageHistory, recommendationHistory>>

\* the record recordUserInteraction starts from (part_003:234-242)
NewUsageRecord(itemId, time) ==
    [itemId |-> itemId, viewCount |-> 0, useCount |-> 0, likeCount |-> 0,
     dislikeCount |-> 0, lastAccessed |-> time, firstAccessed |-> time]

\* a counter choice that books a dislike as a like
CounterOfLiked(interactionType) ==
    CASE interactionType = "view" -> "viewCount"
      [] interactionType = "use" -> "useCount"
      [] interactionType = "like" -> "likeCount"
      [] interactionType = "dislike" -> "likeCount"
\* the counter an interaction type increments
CounterOf(interactionType) ==
    CASE interactionType = "view" -> "viewCount"
      [] interactionType = "use" -> "useCount"
      [] interactionType = "like" -> "likeCount"
      [] interactionType = "dislike" -> "dislikeCount"

\* recordUserInteraction (part_003:233-261)
RecordUserInteraction(itemId, interactionType) ==
    /\ LET existing == IF UsageHas(usageHistory, itemId)
                       THEN UsageGet(usageHistory, itemId)
                       ELSE NewUsageRecord(itemId, now)
           counted == [existing EXCEPT ![CounterOf(interactionType)] = @ + 1,
                                       !.lastAccessed = now]
       IN  /\ existing.viewCount + existing.useCount + existing.likeCount
                  + existing.dislikeCount < MaxInteractions
           /\ usageHistory' =
                  IF UsageHas(usageHistory, itemId)
                  THEN [i \in 1..Len(usageHistory) |->
                           IF usageHistory[i].itemId = itemId THEN counted
                           ELSE usageHistory[i]]
                  ELSE Append(usageHistory, counted)
    /\ ret' = [op |-> "recordUserInteraction", itemId |-> itemId,
               interactionType |-> interactionType]
    /\ UNCHANGED <<vectors, embeddingCache, calls, now, lastWrite, firstEmbed,
                   batch, userPreferences, recommendationHistory>>

(***************************************************************************)
(* Inputs                                                                  *)
(***************************************************************************)
\* a short text, a text whose cache key differs, and a text longer than the
\* 8000 characters sent to the source
Contents == {Text(1, 50), Text(2, 300), Text(1, 9000)}
ItemMetadata == [type |-> "code", title |-> "title", timestamp |-> 0]
Metadatas == {EmptyObject, ItemMetadata}

\* the one id the concurrent callers of Spec write
SharedIds == {1}
StoreContents == {Text(1, 50), Text(2, 300)}
Thresholds == {0, SIMILARITY_THRESHOLD}
Limits == {0, 1, MaxId}
\* the answers of the source the sequential caller meets
QueryOutcomes ==
    {[kind |-> "ok", vector |-> RemoteSameDim],
     [kind |-> "ok", vector |-> RemoteLonger],
     [kind |-> "throw", vector |-> <<>>],
     [kind |-> "noembedding", vector |-> <<>>]}
\* the draws k-means makes: none when it does not run, or has nothing to draw from
RandomIndexes(n, k) ==
    IF TooFewPoints(n, k) \/ n = 0 THEN {<<>>} ELSE [1..k -> 1..n]

(***************************************************************************)
(* Spec: storeVector under concurrent callers of one id                    *)
(***************************************************************************)
Next ==
    \/ \E id \in SharedIds, content \in StoreContents, metadata \in Metadatas :
         StoreVector(id, content, metadata)
    \/ \E call \in AwaitingCalls, o \in SourceOutcomes : SourceResponds(call, o)
    \/ \E id \in SharedIds : DeleteVector(id)
    \/ Clear
    \/ Tick

Spec == Init /\ [][Next]_vars

(***************************************************************************)
(* SpecEmbed: embedContent under concurrent callers                        *)
(***************************************************************************)
NextEmbed ==
    \/ \E content \in Contents : EmbedContent(content)
    \/ \E call \in AwaitingCalls, o \in SourceOutcomes : SourceResponds(call, o)
    \/ ClearCache

SpecEmbed == Init /\ [][NextEmbed]_vars

(***************************************************************************)
(* SpecQuery: a caller that awaits each call before it makes the next      *)
(***************************************************************************)
SequentialStore ==
    \/ /\ NoCallInFlight
       /\ \/ \E id \in Ids, content \in StoreContents :
               StoreVector(id, content, ItemMetadata)
          \/ \E id \in Ids : DeleteVector(id)
    \/ \E call \in AwaitingCalls, o \in QueryOutcomes : SourceResponds(call, o)

NextQuery ==
    \/ SequentialStore
    \/ /\ NoCallInFlight
       /\ \/ \E content \in Contents, threshold \in Thresholds, limit \in Limits :
               FindSimilar(content, threshold, limit)
          \/ \E id \in Ids, threshold \in Thresholds, limit \in Limits :
               FindSimilarById(id, threshold, limit)

SpecQuery == Init /\ [][NextQuery]_vars

(***************************************************************************)
(* SpecCluster: the sequential caller clusters what it stored              *)
(***************************************************************************)
NextCluster ==
    \/ SequentialStore
    \/ /\ NoCallInFlight
       /\ \E k \in 0..(MaxId + 1) :
            \E randomIndex \in RandomIndexes(Len(vectors), k) :
              PerformClustering(k, randomIndex)

SpecCluster == Init /\ [][NextCluster]_vars

(***************************************************************************)
(* SpecBatch: storeBatch calls, one at a time, and clearCache               *)
(***************************************************************************)
BatchItem(i, content) ==
    [id |-> ((i - 1) % MaxId) + 1, content |-> content,
     type |-> "code", title |-> "title", timestamp |-> 0]
\* lists of up to MaxBatch items: all of one text, of two texts in turn, or
\* of one text in the first chunk and another after it
ItemLists ==
    {[i \in 1..n |->
        BatchItem(i, CASE mix = 1 -> Text(1, 50)
                       [] mix = 2 -> IF i % 2 = 0 THEN Text(1, 50) ELSE Text(2, 300)
                       [] mix = 3 -> IF i <= batchSize THEN Text(1, 50)
                                     ELSE Text(2, 300))] :
        n \in 0..MaxBatch, mix \in {1, 2, 3}}
BatchOutcomes ==
    {[kind |-> "ok", vector |-> RemoteSameDim],
     [kind |-> "throw", vector |-> <<>>]}

NextBatch ==
    \/ \E items \in ItemLists, supportsEmbedding \in BOOLEAN :
         StoreBatch(items, supportsEmbedding)
    \/ \E call \in AwaitingCalls, o \in BatchOutcomes : BatchItemResponds(call, o)
    \/ ClearCache

SpecBatch == Init /\ [][NextBatch]_vars

(***************************************************************************)
(* SpecRec: the sequential caller stores, recommends and gives feedback    *)
(***************************************************************************)
\* the text stored under an id
ContentOf(id) == IF id % 2 = 1 THEN Text(1, 50) ELSE Text(2, 300)
RecOutcomes ==
    {[kind |-> "ok", vector |-> RemoteLonger],
     [kind |-> "throw", vector |-> <<>>],
     [kind |-> "noembedding", vector |-> <<>>]}
\* an id that is never stored
UnknownId == MaxId + 1
SimplePreferences ==
    [getDefaultPreferences EXCEPT !.complexityPreference = "simple",
                                  !.timePreference = "historical"]
\* no field, a query, a query with a result limit and preferences of the
\* request, a context whose items are stored or not, preferences alone
RecRequests ==
    {EmptyObject,
     [query |-> Text(1, 50)],
     [query |-> Text(2, 300), maxResults |-> 1,
      userPreferences |-> SimplePreferences],
     [currentContext |-> <<[id |-> 1]>>],
     [currentContext |-> <<[id |-> 1], [id |-> UnknownId]>>],
     [userPreferences |-> [timePreference |-> "all"]]}

NextRec ==
    \/ /\ NoCallInFlight
       /\ \/ \E id \in Ids : StoreVector(id, ContentOf(id), ItemMetadata)
          \/ /\ Len(recommendationHistory) < MaxRecommends
             /\ \E request \in RecRequests : Recommend(request)
    \/ \E call \in AwaitingCalls, o \in RecOutcomes :
         \/ SourceResponds(call, o)
         \/ RecommendResponds(call, o)

SpecRec == Init /\ [][NextRec]_vars

(***************************************************************************)
(* SpecEngine: the sequential caller of every operation of the engine      *)
(***************************************************************************)
EngineOutcomes == {[kind |-> "throw", vector |-> <<>>]}
ComplexPreferences ==
    [getDefaultPreferences EXCEPT !.complexityPreference = "complex"]
\* no field, a context item that has no record, and preferences of the call
EngineRequests ==
    {EmptyObject,
     [currentContext |-> <<[id |-> UnknownId]>>],
     [userPreferences |-> ComplexPreferences]}
PreferenceUpdates ==
    {[complexityPreference |-> "simple", timePreference |-> "all"]}

NextEngine ==
    \/ /\ NoCallInFlight
       /\ \/ \E id \in Ids : StoreVector(id, ContentOf(id), ItemMetadata)
          \/ /\ Len(recommendationHistory) < MaxRecommends
             /\ \/ \E request \in EngineRequests : Recommend(request)
                \/ RecommendByQuery(Text(1, 50), 1)
                \/ RecommendByContext(<<[id |-> 1]>>, 1)
          \/ \E itemId \in {1, UnknownId} : GetRelatedContent(itemId, 5)
          \/ \E preferences \in PreferenceUpdates :
               UpdateUserPreferences(preferences)
          \/ \E interactionType \in {"like", "dislike"} :
               RecordUserInteraction(1, interactionType)
          \/ GetRecommendationStats
    \/ \E call \in AwaitingCalls, o \in EngineOutcomes :
         \/ SourceResponds(call, o)
         \/ RecommendResponds(call, o)

SpecEngine == Init /\ [][NextEngine]_vars

(***************************************************************************)
(* SpecHistory: the caller recommends without end over a small index       *)
(***************************************************************************)
\* no field, a working context, and a context item that has no record
HistoryRequests ==
    {EmptyObject,
     [workingContext |-> [timeOfDay |-> "morning"]],
     [currentContext |-> <<[id |-> UnknownId]>>]}

NextHistory ==
    \/ /\ NoCallInFlight
       /\ \/ StoreVector(1, ContentOf(1), ItemMetadata)
          \/ \E request \in HistoryRequests : Recommend(request)
          \/ GetRecommendationStats
    \/ \E call \in AwaitingCalls, o \in EngineOutcomes : SourceResponds(call, o)

SpecHistory == Init /\ [][NextHistory]_vars

(***************************************************************************)
(* SpecFilter: recommends whose preferences and cap filter the result      *)
(***************************************************************************)
SimpleOnly == [getDefaultPreferences EXCEPT !.complexityPreference = "simple"]
\* a query under the simple preference, the complex and the simple preference
\* alone, a cap of 0 and of 1, and no field
FilterRequests ==
    {[query |-> Text(2, 300), userPreferences |-> SimpleOnly],
     [userPreferences |-> ComplexPreferences],
     [userPreferences |-> SimpleOnly],
     [maxResults |-> 0],
     [maxResults |-> 1],
     EmptyObject}

NextFilter ==
    \/ /\ NoCallInFlight
       /\ \/ \E id \in Ids : StoreVector(id, ContentOf(id), ItemMetadata)
          \/ /\ Len(recommendationHistory) < MaxRecommends
             /\ \E request \in FilterRequests : Recommend(request)
          \/ \E preferences \in PreferenceUpdates :
               UpdateUserPreferences(preferences)
    \/ \E call \in AwaitingCalls, o \in EngineOutcomes :
         \/ SourceResponds(call, o)
         \/ RecommendResponds(call, o)

SpecFilter == Init /\ [][NextFilter]_vars

(***************************************************************************)
(* SpecUsage: the caller records interactions with two items               *)
(***************************************************************************)
InteractionTypes == {"view", "use", "like", "dislike"}

NextUsage ==
    \/ \E itemId \in Ids, interactionType \in InteractionTypes :
         RecordUserInteraction(itemId, interactionType)
    \/ Tick

SpecUsage == Init /\ [][NextUsage]_vars

(***************************************************************************)
(* SpecScore: items of several lengths are stored while time passes, and   *)
(* recommended under each time preference                                  *)
(***************************************************************************)
\* a short text, one of a middling length and one beyond the 500 characters
\* storeVector keeps
ScoreContents == {Text(1, 50), Text(2, 300), Text(1, 3000)}
\* the three time preferences, as preferences of the call
ScoreRequests ==
    {[userPreferences |-> [getDefaultPreferences EXCEPT !.timePreference = t]] :
        t \in {"recent", "historical", "all"}}

NextScore ==
    \/ /\ NoCallInFlight
       /\ \/ \E id \in Ids, content \in ScoreContents :
               StoreVector(id, content, ItemMetadata)
          \/ /\ recommendationHistory = <<>>
             /\ \E request \in ScoreRequests : Recommend(request)
    \/ Tick
    \/ \E call \in AwaitingCalls, o \in EngineOutcomes : SourceResponds(call, o)

SpecScore == Init /\ [][NextScore]_vars

(***************************************************************************)
(* SpecTypes: recommends whose preferred types the stored items are not of *)
(***************************************************************************)
QaOnly == [getDefaultPreferences EXCEPT !.preferredTypes = <<"qa">>]
NoTypes == [getDefaultPreferences EXCEPT !.preferredTypes = <<>>]
\* a query and no query under a preferred type no item has, no preferred
\* type at all, and no field
TypeRequests ==
    {[query |-> Text(2, 300), userPreferences |-> QaOnly],
     [userPreferences |-> QaOnly],
     [userPreferences |-> NoTypes],
     EmptyObject}

NextTypes ==
    \/ /\ NoCallInFlight
       /\ \/ \E id \in Ids : StoreVector(id, ContentOf(id), ItemMetadata)
          \/ /\ Len(recommendationHistory) < MaxRecommends
             /\ \E request \in TypeRequests : Recommend(request)
          \/ RecordUserInteraction(MaxId, "like")
    \/ \E call \in AwaitingCalls, o \in EngineOutcomes :
         \/ SourceResponds(call, o)
         \/ RecommendResponds(call, o)

SpecTypes == Init /\ [][NextTypes]_vars

(***************************************************************************)
(* SpecKMeans: the source embeds in one dimension, the caller clusters     *)
(***************************************************************************)
\* the one-dimensional points 0.0 and 10.0
PointOutcomes ==
    {[kind |-> "ok", vector |-> <<0>>],
     [kind |-> "ok", vector |-> <<10 * Unit>>]}

NextKMeans ==
    \/ /\ NoCallInFlight
       /\ \/ \E id \in Ids : StoreVector(id, ContentOf(id), ItemMetadata)
          \/ \E k \in 1..MaxId :
               \E randomIndex \in RandomIndexes(Len(vectors), k) :
                 PerformClustering(k, randomIndex)
    \/ \E call \in AwaitingCalls, o \in PointOutcomes : SourceResponds(call, o)

SpecKMeans == Init /\ [][NextKMeans]_vars

(***************************************************************************)
(* Properties of the Vector Index                                          *)
(***************************************************************************)
RecordsOf(id) == {i \in 1..Len(vectors) : vectors[i].id = id}

\* C2: after stores that are each awaited before the next, the index holds at
\* most one record per id, and the record of an id is the one the most recent
\* store of that id produced (overwrite, never append).
C2_OneRecordPerIdLastStore ==
    \A id \in Ids :
        /\ Cardinality(RecordsOf(id)) <= 1
        /\ id \in DOMAIN lastWrite =>
             /\ Cardinality(RecordsOf(id)) = 1
             /\ MapGet(vectors, id).vector = lastWrite[id].vector
             /\ MapGet(vectors, id).metadata.contentLength = lastWrite[id].content.len
             /\ MapGet(vectors, id).metadata.content
                    = Substring(lastWrite[id].content, contentSummaryLength)
             /\ MapGet(vectors, id).timestamp = lastWrite[id].time

\* an id stored a second time, with content of another length, while another
\* id is stored too
C2_Witness ==
    /\ ret.op = "storeVector"
    /\ ret.replaced >= 0
    /\ ret.replaced # MapGet(vectors, ret.id).metadata.contentLength
    /\ Len(vectors) = MaxId

\* the similarity findSimilar computed for a stored record
SimilarityTo(queryVector, d) == calculateCosineSimilarity(queryVector, d.vector)
\* the ids of the records at or above the threshold
AtOrAbove(queryVector, threshold, candidates) ==
    {i \in candidates : SimilarityTo(queryVector, vectors[i]) >= threshold}
ReturnedIds(value) == {value[i].item.id : i \in 1..Len(value)}

\* what C3 asks of a result `value` drawn from the records `candidates`
FirstOfSortedAtOrAbove(value, queryVector, threshold, limit, candidates) ==
    LET qualifying == AtOrAbove(queryVector, threshold, candidates)
    IN  /\ Len(value) = Min(limit, Cardinality(qualifying))
        /\ \A i \in 1..Len(value) :
             \E j \in qualifying :
               /\ vectors[j].id = value[i].item.id
               /\ value[i].similarity = SimilarityTo(queryVector, vectors[j])
               /\ value[i].vector = vectors[j].vector
               /\ value[i].item = ContextItemOf(vectors[j])
        /\ \A i, j \in 1..Len(value) :
             /\ i < j => value[i].similarity >= value[j].similarity
             /\ i # j => value[i].item.id # value[j].item.id
        /\ \A j \in qualifying :
             vectors[j].id \notin ReturnedIds(value) =>
               \A i \in 1..Len(value) :
                 value[i].similarity >= SimilarityTo(queryVector, vectors[j])

\* C3: what findSimilar returns is the first `limit` records of the stored
\* records with similarity >= threshold in non-increasing order of similarity:
\* none below the threshold, none omitted that is strictly more similar than a
\* returned one, at most `limit` of them.
C3_FindSimilarFirstLimitSorted ==
    (ret.op = "findSimilar" /\ ret.threw = "none") =>
        FirstOfSortedAtOrAbove(ret.value, ret.queryVector, ret.threshold,
                               ret.limit, 1..Len(vectors))

\* a query with two records at or above the threshold, the more similar one
\* stored second, cut to the first
C3_Witness ==
    /\ ret.op = "findSimilar"
    /\ ret.threw = "none"
    /\ ret.limit = 1
    /\ Len(vectors) = 2
    /\ AtOrAbove(ret.queryVector, ret.threshold, 1..2) = 1..2
    /\ SimilarityTo(ret.queryVector, vectors[1])
           < SimilarityTo(ret.queryVector, vectors[2])
    /\ ret.value[1].item.id = vectors[2].id

\* C4: findSimilarById(id, ...) never has id among the items it returns.
C4_FindSimilarByIdExcludesSelf ==
    (ret.op = "findSimilarById" /\ ret.threw = "none") =>
        \A i \in 1..Len(ret.value) : ret.value[i].item.id # ret.id

\* a query by id that returns another record, its own similarity to itself
\* being at or above the threshold
C4_Witness ==
    /\ ret.op = "findSimilarById"
    /\ ret.threw = "none"
    /\ Len(ret.value) >= 1
    /\ SimilarityTo(MapGet(vectors, ret.id).vector, MapGet(vectors, ret.id))
           >= ret.threshold

\* one singleton cluster per stored record, each of coherence 1.0
OneClusterPerVector(r) ==
    /\ r.threw = "none"
    /\ Len(r.value) = Len(vectors)
    /\ \A i \in 1..Len(vectors) :
         /\ r.value[i].items = <<ContextItemOf(vectors[i])>>
         /\ r.value[i].coherence = Unit

\* C5 (as the code has it): for any k strictly greater than the number n of
\* stored vectors, cluster(k) returns one cluster per stored vector, holding
\* that vector alone, of coherence 1.0, whatever the random draws.
C5_SingletonsWhenKExceedsN ==
    (ret.op = "performClustering" /\ ret.k > Len(vectors)) =>
        OneClusterPerVector(ret)

\* two records clustered with k = 3
C5_Witness ==
    /\ ret.op = "performClustering"
    /\ Len(vectors) = 2
    /\ ret.k = 3
    /\ Len(ret.value) = 2

WellFormedVectors ==
    \A i \in 1..Len(vectors) :
        IsArr(vectors[i].vector) /\ Len(vectors[i].vector.elems) = VecDim

\* C5 as stated: for any k >= n, k = n included, one cluster per vector of
\* coherence 1.0 for every choice of initial centroids (here on vectors that
\* are all arrays of the local dimension).
C5_SingletonsWhenKAtLeastN ==
    (ret.op = "performClustering" /\ ret.k >= Len(vectors) /\ WellFormedVectors) =>
        OneClusterPerVector(ret)

\* two stored vectors of different dimension
MixedDimensions ==
    \E i, j \in 1..Len(vectors) :
        /\ IsArr(vectors[i].vector)
        /\ IsArr(vectors[j].vector)
        /\ Len(vectors[i].vector.elems) # Len(vectors[j].vector.elems)

\* C10: when vectors of different dimension meet in the Euclidean distance
\* and the centroid mean of cluster(k), the operation aborts with
\* DimensionMismatch and returns no result.
C10_ClusterDimensionMismatchAborts ==
    (/\ ret.op = "performClustering"
     /\ ret.k >= 1
     /\ ret.k <= Len(vectors)
     /\ \A i \in 1..Len(vectors) : IsArr(vectors[i].vector)
     /\ MixedDimensions) =>
        ret.threw = "DimensionMismatch"

\* C10, the cosine similarity of findSimilar and findSimilarById: a query
\* that meets a stored array of another dimension first aborts with
\* DimensionMismatch
C10_CosineDimensionMismatchAborts ==
    (/\ ret.op = "findSimilar"
     /\ IsArr(ret.queryVector)
     /\ \A i \in 1..Len(vectors) : IsArr(vectors[i].vector)
     /\ \E i \in 1..Len(vectors) :
          Len(vectors[i].vector.elems) # Len(ret.queryVector.elems)) =>
        ret.threw = "DimensionMismatch"

(***************************************************************************)
(* Properties of embedContent                                              *)
(***************************************************************************)
\* C6: embed(text) always resolves with a vector; when the source is
\* unsupported, throws, or answers without an embedding array, what is
\* returned and cached is the deterministic local embedding.
C6_FallsBackToLocalEmbedding ==
    ret.op = "embedContent" =>
        /\ IsArr(ret.value)
        /\ ret.src \in {"unsupported", "throw", "null", "noembedding"} =>
             /\ ret.value = Arr(generateLocalEmbedding(ret.content))
             /\ ret.cached = ret.value

\* the cache entry a text is looked up under
CachedFor(cache, content) == cache[generateCacheKey(content)]
IsCached(cache, content) == generateCacheKey(content) \in DOMAIN cache
\* the suspended calls whose answer will be written under the key of content
InFlightFor(content) ==
    {call \in AwaitingCalls :
        generateCacheKey(call.content) = generateCacheKey(content)}

\* C7 (as the code has it): once embed(text) has resolved, and until
\* clearCache, the text stays cached; a later embed of it makes no call to
\* the source and returns the vector cached for it without touching the
\* cache; and that cached vector changes only when a call of the same cache
\* key that was suspended on the source resolves.
C7_LaterEmbedIsCacheHit ==
    [][\A content \in Contents :
         IsCached(embeddingCache, content) =>
           \* no call to the source for a cached text
           /\ \A call \in BagToSet(calls') :
                call.content = content =>
                  CopiesIn(call, calls') <= CopiesIn(call, calls)
           \* an embed that completes at once returns the cached vector
           /\ (ret' # ret /\ ret'.op = "embedContent" /\ ret'.content = content
                 /\ calls' = calls) =>
                /\ ret'.src = "cache"
                /\ ret'.value = CachedFor(embeddingCache, content)
                /\ embeddingCache' = embeddingCache
           \* the entry stays, with its vector, but for clearCache and the
           \* calls already in flight
           /\ \/ embeddingCache' = EmptyObject /\ ret'.op = "clearCache"
              \/ /\ IsCached(embeddingCache', content)
                 /\ \/ CachedFor(embeddingCache', content)
                          = CachedFor(embeddingCache, content)
                    \/ \E call \in InFlightFor(content) :
                         calls' = calls (-) SetToBag({call})
      ]_vars

\* a cache hit on the text longer than 8000 characters, the cached vector
\* being its local embedding
C7_Witness ==
    /\ ret.op = "embedContent"
    /\ ret.src = "cache"
    /\ ret.content.len > embeddingInputLimit
    /\ firstEmbed.content = ret.content
    /\ ret.value = Arr(generateLocalEmbedding(ret.content))

\* C7 as stated: every embed of a text that hits the cache returns the same
\* vector as the first embed of that text that resolved since the cache was
\* last cleared.
C7_LaterEmbedReturnsSameVector ==
    (/\ ret.op = "embedContent"
     /\ ret.src = "cache"
     /\ firstEmbed.op = "embedContent"
     /\ firstEmbed.content = ret.content) =>
        ret.value = firstEmbed.value

(***************************************************************************)
(* Properties of storeVector under concurrent callers                      *)
(***************************************************************************)
\* d is, field by field, the record the call w built
WholeRecordOf(d, w) ==
    /\ DOMAIN d = {"id", "vector", "metadata", "timestamp"}
    /\ d.vector = w.vector
    /\ d.timestamp = w.time
    /\ DOMAIN d.metadata = DOMAIN w.metadata \cup {"content", "contentLength"}
    /\ \A field \in DOMAIN w.metadata \ {"content", "contentLength"} :
         d.metadata[field] = w.metadata[field]
    /\ d.metadata.content = Substring(w.content, contentSummaryLength)
    /\ d.metadata.contentLength = w.content.len

\* C8: under every interleaving of concurrent stores to one id, the record of
\* the id is at every moment the complete record of one call (vector,
\* metadata snapshot and timestamp of the same call), and that call is the
\* one that wrote last.
C8_RecordIsWholeLastWrite ==
    \A i \in 1..Len(vectors) :
        /\ RecordsOf(vectors[i].id) = {i}
        /\ vectors[i].id \in DOMAIN lastWrite
        /\ WholeRecordOf(vectors[i], lastWrite[vectors[i].id])

\* the id holds the record of a store that was answered at time 1 while a
\* store of other content and other metadata to the same id, called
\* earlier, is still suspended
C8_Witness ==
    /\ Len(vectors) = 1
    /\ vectors[1].timestamp = 1
    /\ ret.op = "storeVector"
    /\ ret.replaced >= 0
    /\ \E call \in AwaitingCalls :
         /\ call.op = "storeVector"
         /\ call.id = vectors[1].id
         /\ call.content.len # vectors[1].metadata.contentLength
         /\ DOMAIN call.metadata # DOMAIN lastWrite[call.id].metadata

(***************************************************************************)
(* Properties of storeBatch                                                *)
(***************************************************************************)
\* the calls of the storeBatch that wait for the source
BatchCallsInFlight == {call \in AwaitingCalls : call.op = "storeBatch"}
\* the chunk item i belongs to, counted from 0
ChunkOf(i) == (i - 1) \div batchSize

\* C9: at most 5 embedding calls of a storeBatch are outstanding at any
\* moment; no item of a later chunk has started before every item of the
\* chunks before it is stored; and when storeBatch has resolved every item of
\* the list has a record (no delete or clear running beside it).
C9_BatchWidthAndChunkOrder ==
    /\ BagCardinality([call \in BatchCallsInFlight |-> calls[call]]) <= batchSize
    /\ batch.state # "none" =>
         /\ \A call \in BatchCallsInFlight :
              call.index \in batch.started \ batch.stored
         /\ \A j \in batch.started, i \in 1..Len(batch.items) :
              ChunkOf(i) < ChunkOf(j) => i \in batch.stored
    /\ batch.state = "resolved" =>
         /\ batch.stored = 1..Len(batch.items)
         /\ \A i \in 1..Len(batch.items) : MapHas(vectors, batch.items[i].id)

\* the item after the first chunk waits for the source, the 5 items of the
\* first chunk being stored
C9_Witness ==
    /\ batch.state = "running"
    /\ Len(batch.items) > batchSize
    /\ batch.stored = 1..batchSize
    /\ batch.pending = {batchSize + 1}
    /\ BatchCall(batch.items, batchSize + 1) \in BatchCallsInFlight

(***************************************************************************)
(* Properties of the Recommendation Engine                                 *)
(***************************************************************************)
Strategies == {"semantic_search", "contextual", "content_based", "hybrid"}

\* a result has the items, at most maxResults of them and scored with
\* numbers, a confidence between 0 and 1, a non-empty explanation and a
\* strategy
WellFormedResult(result, request) ==
    /\ DOMAIN result = {"items", "explanation", "confidence", "strategy",
                        "metadata"}
    /\ Len(result.items) <= MaxResultsOf(request)
    /\ \A i \in 1..Len(result.items) : ~IsNaN(result.items[i].score)
    /\ result.confidence \in 0..Unit
    /\ result.explanation.text # ""
    /\ result.strategy \in Strategies

\* C1: recommend never throws or rejects: for every request and every state
\* of the index, an empty index and a context item without a record included,
\* it resolves with a well-formed result; when an error occurred inside it or
\* the index is empty, the result has no item, confidence 0 and a non-empty
\* explanation.
C1_RecommendNeverThrows ==
    ret.op = "recommend" =>
        /\ ret.threw = "none"
        /\ WellFormedResult(ret.value, ret.request)
        /\ (ret.caught # "none" \/ vectors = <<>>) =>
               /\ ret.value.items = <<>>
               /\ ret.value.confidence = 0
               /\ ret.value.explanation.text # ""
\* a recommend over a filled index caught an error and resolved
C1_Witness ==
    /\ ret.op = "recommend"
    /\ ret.caught # "none"
    /\ vectors # <<>>
    /\ ret.threw = "none"

\* C11: getRelatedContent called with an id that has no record surfaces the
\* NotFound error of findSimilarById to its caller instead of returning a
\* normal result.
C11_RelatedContentSurfacesNotFound ==
    (ret.op = "getRelatedContent" /\ ~MapHas(vectors, ret.itemId)) =>
        ret.threw = "NotFound"

\* C12: findSimilarById called with an id that has no record fails with
\* NotFound, and the failed call leaves the stored records and the embedding
\* cache as they were.
C12_FindSimilarByIdNotFound ==
    [][(/\ ret' # ret
        /\ ret'.op = "findSimilarById"
        /\ ~MapHas(vectors, ret'.id)) =>
           /\ ret'.threw = "NotFound"
           /\ vectors' = vectors
           /\ embeddingCache' = embeddingCache]_vars
\* a findSimilarById of an id without a record has failed over a filled
\* index and a filled cache
C12_Witness ==
    /\ ret.op = "findSimilarById"
    /\ ~MapHas(vectors, ret.id)
    /\ ret.threw = "NotFound"
    /\ vectors # <<>>
    /\ embeddingCache # <<>>

(***************************************************************************)
(* Properties of recommend                                                 *)
(***************************************************************************)
\* the strategy by first match: query, current context, working context
StrategyByFirstMatch(request) ==
    CASE "query" \in DOMAIN request /\ request.query.len > 0 ->
           "semantic_search"
      [] "currentContext" \in DOMAIN request /\ request.currentContext # <<>> ->
           "contextual"
      [] "workingContext" \in DOMAIN request -> "content_based"
      [] OTHER -> "hybrid"

\* C13: the strategy reported in the result of recommend is a function of the
\* request alone, by first match (query, else non-empty current context, else
\* working context, else hybrid), whatever the index, the preferences and the
\* history hold.
C13_StrategyIsFunctionOfRequest ==
    ret.op = "recommend" =>
        ret.value.strategy = StrategyByFirstMatch(ret.request)

\* the step is a call of recommend that has resolved
RecommendResolves == ret' # ret /\ ret'.op = "recommend"
StatsOf(history) == getRecommendationStats(history)

\* C14: every call of recommend appends the result it returns to the history,
\* be it a normal result or the fallback: after the call the statistics count
\* one recommendation more (or the trimmed count) and the strategy
\* distribution includes the strategy of the returned result.
C14_EveryResultIsRecorded ==
    [][RecommendResolves =>
         /\ recommendationHistory' # <<>>
         /\ recommendationHistory'[Len(recommendationHistory')] = ret'.value
         /\ StatsOf(recommendationHistory').totalRecommendations
                \in {StatsOf(recommendationHistory).totalRecommendations + 1,
                     HistoryLimit \div 2}
         /\ ret'.value.strategy
                \in DOMAIN StatsOf(recommendationHistory').strategyDistribution]_vars

\* the last n entries of a list, in their order
MostRecent(list, n) == [i \in 1..n |-> list[Len(list) - n + i]]

\* C15: the history never holds more than the limit (1000 in the code); the
\* append that would bring it beyond the limit leaves exactly the most recent
\* half of the limit (500), in their original order, and no other step trims
\* or changes the history.
C15_HistoryCappedAndTrimmedOnce ==
    [][/\ Len(recommendationHistory') <= HistoryLimit
       /\ recommendationHistory' # recommendationHistory =>
            /\ ret'.op = "recommend"
            /\ LET pushed == Append(recommendationHistory, ret'.value)
               IN  IF Len(recommendationHistory) = HistoryLimit
                   THEN recommendationHistory'
                            = MostRecent(pushed, HistoryLimit \div 2)
                   ELSE recommendationHistory' = pushed]_vars
\* a recommend found the history full and left the newer half, of two
\* results that differ
C15_Witness ==
    /\ ret.op = "recommend"
    /\ ret.historyBefore = HistoryLimit
    /\ Len(recommendationHistory) = HistoryLimit \div 2
    /\ recommendationHistory[1] # recommendationHistory[2]

\* the complexity preference in force for the request of the last recommend
EffectiveComplexityPreference ==
    IF /\ "userPreferences" \in DOMAIN ret.request
       /\ "complexityPreference" \in DOMAIN ret.request.userPreferences
    THEN ret.request.userPreferences.complexityPreference
    ELSE userPreferences.complexityPreference
ResultItems == [i \in 1..Len(ret.value.items) |-> ret.value.items[i].item]
StoredItems == [i \in 1..Len(vectors) |-> EngineContextItemOf(vectors[i])]

\* C16: under the effective complexity preference `simple` every item of a
\* recommend result has a computed complexity below 0.5, under `complex`
\* above 0.6; no score lets an item bypass the filter.
C16_ComplexityFilterIsStrict ==
    ret.op = "recommend" =>
        \A i \in 1..Len(ResultItems) :
            /\ EffectiveComplexityPreference = "simple" =>
                   calculateComplexity(ResultItems[i]) < Unit \div 2
            /\ EffectiveComplexityPreference = "complex" =>
                   calculateComplexity(ResultItems[i]) > (6 * Unit) \div 10
\* a recommend under `simple` returned an item and left out a stored item
\* whose complexity is 0.5 or more
C16_Witness ==
    /\ ret.op = "recommend"
    /\ EffectiveComplexityPreference = "simple"
    /\ ResultItems # <<>>
    /\ \E i \in 1..Len(StoredItems) :
          /\ calculateComplexity(StoredItems[i]) >= Unit \div 2
          /\ \A j \in 1..Len(ResultItems) : ResultItems[j].id # StoredItems[i].id

\* the cap the request asks for, 10 when it asks for none
RequestedCap(request) ==
    IF "maxResults" \in DOMAIN request THEN request.maxResults ELSE 10

\* C17: the result of recommend never has more items than the cap the request
\* supplies, a cap of 0 included, and never more than 10 when the request
\* supplies none.
C17_ResultWithinRequestedCap ==
    ret.op = "recommend" => Len(ret.value.items) <= RequestedCap(ret.request)

\* the scores of the items of the last result, their mean and their
\* population variance, in thousandths
ResultScores == [i \in 1..Len(ret.value.items) |-> ret.value.items[i].score]
RECURSIVE Total(_)
Total(list) == IF list = <<>> THEN 0 ELSE Head(list) + Total(Tail(list))
Mean(list) == Total(list) \div Len(list)
PopulationVariance(list) ==
    Total([i \in 1..Len(list) |->
             ((list[i] - Mean(list)) * (list[i] - Mean(list))) \div Unit])
        \div Len(list)
ReturnsResult == ret.op \in {"recommend", "getRelatedContent"}

\* C18: the confidence of every result of recommend and of getRelatedContent
\* lies in [0, 1]; it is 0.7 x mean score + 0.3 x max(0, 1 - population
\* variance of the scores), and 0 for a result without items.
C18_ConfidenceInUnitInterval ==
    ReturnsResult =>
        /\ ret.value.confidence >= 0
        /\ ret.value.confidence <= Unit
        /\ ret.value.confidence =
               IF ret.value.items = <<>> THEN 0
               ELSE (Mean(ResultScores) * 700) \div Unit
                    + ((IF Unit - PopulationVariance(ResultScores) > 0
                        THEN Unit - PopulationVariance(ResultScores)
                        ELSE 0) * 300) \div Unit
\* a result with two items of different scores
C18_Witness ==
    /\ ReturnsResult
    /\ Len(ret.value.items) = 2
    /\ ResultScores[1] # ResultScores[2]
    /\ ret.value.confidence > 0

(***************************************************************************)
(* Properties of the usage history and the preferences                     *)
(***************************************************************************)
UsageRecordsOf(usage, itemId) ==
    {i \in 1..Len(usage) : usage[i].itemId = itemId}
Counters == {"viewCount", "useCount", "likeCount", "dislikeCount"}
\* the count an item has in one counter, 0 without a record
CountOf(usage, itemId, counter) ==
    IF UsageRecordsOf(usage, itemId) = {} THEN 0
    ELSE usage[CHOOSE i \in UsageRecordsOf(usage, itemId) : TRUE][counter]
CounterNamed(interactionType) ==
    CASE interactionType = "view" -> "viewCount"
      [] interactionType = "use" -> "useCount"
      [] interactionType = "like" -> "likeCount"
      [] interactionType = "dislike" -> "dislikeCount"
\* the item has one like and nothing else
OnlyLiked(usage, itemId) ==
    /\ CountOf(usage, itemId, "likeCount") = 1
    /\ \A c \in Counters \ {"likeCount"} : CountOf(usage, itemId, c) = 0

\* C19: an interaction increments only its own counter, on its id only, and
\* an id has one usage record: a like and then a dislike for one id leave one
\* record with likes = 1 and dislikes = 1, and the usage score after one like
\* and no dislike is strictly greater than after one like and one dislike.
C19_LikeThenDislike ==
    [][ret'.op = "recordUserInteraction" /\ usageHistory' # usageHistory =>
         /\ \A itemId \in Ids : Cardinality(UsageRecordsOf(usageHistory', itemId)) <= 1
         /\ Cardinality(UsageRecordsOf(usageHistory', ret'.itemId)) = 1
         /\ \A itemId \in Ids, c \in Counters :
               CountOf(usageHistory', itemId, c) =
                   CountOf(usageHistory, itemId, c)
                   + (IF itemId = ret'.itemId
                         /\ c = CounterNamed(ret'.interactionType)
                      THEN 1 ELSE 0)
         /\ (OnlyLiked(usageHistory, ret'.itemId)
             /\ ret'.interactionType = "dislike") =>
                /\ CountOf(usageHistory', ret'.itemId, "likeCount") = 1
                /\ CountOf(usageHistory', ret'.itemId, "dislikeCount") = 1
                /\ calculateUsageScore(usageHistory, ret'.itemId)
                       > calculateUsageScore(usageHistory', ret'.itemId)]_vars
\* after a like, a dislike of the same item has been recorded, the other item
\* having a record of its own
C19_Witness ==
    /\ ret.op = "recordUserInteraction"
    /\ ret.interactionType = "dislike"
    /\ CountOf(usageHistory, ret.itemId, "likeCount") = 1
    /\ CountOf(usageHistory, ret.itemId, "dislikeCount") = 1
    /\ Len(usageHistory) = 2

\* the step is a call of updateUserPreferences
UpdateStep == ret' # ret /\ ret'.op = "updateUserPreferences"

\* C20: the stored preferences change only in updateUserPreferences, which
\* replaces exactly the fields it is given and keeps the others; recommend
\* (with or without preferences of its own), recommendByQuery,
\* recommendByContext, getRelatedContent, recordUserInteraction and the
\* statistics leave them as they are.
C20_PreferencesChangeOnlyByUpdate ==
    [][IF UpdateStep
       THEN /\ DOMAIN userPreferences'
                  = DOMAIN userPreferences \cup DOMAIN ret'.preferences
            /\ \A f \in DOMAIN userPreferences' :
                  userPreferences'[f] = IF f \in DOMAIN ret'.preferences
                                        THEN ret'.preferences[f]
                                        ELSE userPreferences[f]
       ELSE userPreferences' = userPreferences]_vars
\* the preferences were updated and a recommend with preferences of its own
\* has run since
C20_Witness ==
    /\ userPreferences # getDefaultPreferences
    /\ userPreferences.preferredTypes = getDefaultPreferences.preferredTypes
    /\ ret.op = "recommend"
    /\ "userPreferences" \in DOMAIN ret.request
    /\ ret.request.userPreferences # userPreferences

(***************************************************************************)
(* Properties of k-means                                                   *)
(***************************************************************************)
\* the index holds the two one-dimensional points 0 and 10, and the last
\* clustering with k = 2 drew each of them as an initial centroid
TwoPointsClustered ==
    /\ ret.op = "performClustering"
    /\ ret.k = 2
    /\ Len(vectors) = 2
    /\ {vectors[1].vector, vectors[2].vector} = {Arr(<<0>>), Arr(<<10 * Unit>>)}
    /\ ret.randomIndex[1] # ret.randomIndex[2]

\* C21: with the initial centroids fixed to the two stored points, k-means
\* with k = 2 over the one-dimensional points 0 and 10 ends with the clusters
\* {0} and {10}, centroids equal to the points and coherence 1.0 for both.
C21_TwoPointsConverge ==
    TwoPointsClustered =>
        /\ ret.threw = "none"
        /\ Len(ret.value) = 2
        /\ \A c \in 1..2 :
              /\ Len(ret.value[c].items) = 1
              /\ ret.value[c].items[1].id = vectors[ret.randomIndex[c]].id
              /\ ret.value[c].centroid = vectors[ret.randomIndex[c]].vector
              /\ ret.value[c].coherence = Unit


(***************************************************************************)
(* Properties of the score                                                 *)
(***************************************************************************)
\* the step is a recommend with a query that resolved with a normal result
QueryRecommendResolves ==
    /\ RecommendResolves
    /\ HasQuery(ret'.request)
    /\ ret'.caught = "none"
\* the cosine similarity between the stored vector of an item and the
\* embedding of the query of the call that just resolved
QueryCosine(itemId) ==
    calculateCosineSimilarity(MapGet(vectors', itemId).vector,
                              CacheGet(embeddingCache', ret'.request.query))
\* the four components that do not depend on the query, weighted and summed
OtherComponents(item) ==
    Weighted(calculateTemporalScore(item, ret'.request, userPreferences', now'), 200)
    + Weighted(calculatePreferenceScore(item, ret'.request, userPreferences'), 200)
    + Weighted(calculateUsageScore(usageHistory', item.id), 100)
    + Weighted(calculateQualityScore(item), 100)

\* C22: when the request has a query, the score of every returned item is the
\* plain sum of its five weighted components, the semantic one being 0.4
\* times the cosine similarity between the stored vector of the item and the
\* embedding of the query, as for every other candidate.
C22_SemanticComponentOfEveryItem ==
    [][QueryRecommendResolves =>
         \A i \in 1..Len(ret'.value.items) :
            LET x == ret'.value.items[i]
            IN  x.score = Weighted(QueryCosine(x.item.id), 400)
                          + OtherComponents(x.item)]_vars

\* the step is a recommend without a query that resolved with a normal result
PlainRecommendResolves ==
    /\ RecommendResolves
    /\ ~HasQuery(ret'.request)
    /\ ret'.caught = "none"
\* the temporal relevance by the age since the timestamp the item carried
\* when it was stored
TemporalByCreation(item, timePreference, time) ==
    LET ageDays == time - item.metadata.timestamp
    IN  CASE timePreference = "recent" -> Max(0, Unit - (ageDays * Unit) \div 30)
          [] timePreference = "historical" -> Min(Unit, (ageDays * Unit) \div 30)
          [] OTHER -> Unit \div 2
\* the weights of the reasons of one type a returned item carries
ReasonWeights(x, type) ==
    {x.reasons[j].weight : j \in {n \in 1..Len(x.reasons) : x.reasons[n].type = type}}

\* C23: the temporal relevance of a returned item is computed from the age
\* since the timestamp the item carried when it was stored: max(0, 1 - age/30)
\* under recent, min(1, age/30) under historical, 0.5 under all; weighted by
\* 0.2 it is the weight of the item's temporal reason when above 0.1, and the
\* item has no temporal reason otherwise.
C23_TemporalFromCreationTimestamp ==
    [][PlainRecommendResolves =>
         \A i \in 1..Len(ret'.value.items) :
            LET x == ret'.value.items[i]
                temporal ==
                    Weighted(TemporalByCreation(
                                 x.item,
                                 PreferenceOf(ret'.request, userPreferences',
                                              "timePreference"),
                                 now'), 200)
            IN  ReasonWeights(x, "temporal_relevance")
                    = IF temporal > Unit \div 10 THEN {temporal} ELSE {}]_vars

\* the step is a recommend that resolved with a normal result
NormalRecommendResolves == RecommendResolves /\ ret'.caught = "none"
\* the preferred types in force for the call that just resolved: those of the
\* request, else those of the engine
EffectivePreferredTypes ==
    IF /\ Has(ret'.request, "userPreferences")
       /\ Has(ret'.request.userPreferences, "preferredTypes")
    THEN ret'.request.userPreferences.preferredTypes
    ELSE userPreferences'.preferredTypes

\* C24: every item in the result of recommend has a total score above 0.1
\* and, when the effective preferred types (of the request, else of the
\* engine) are not empty, is of one of these types or scores above 0.7.
C24_ResultPassesScoreAndTypeFilters ==
    [][NormalRecommendResolves =>
         \A i \in 1..Len(ret'.value.items) :
            LET x == ret'.value.items[i]
            IN  /\ x.score > Unit \div 10
                /\ EffectivePreferredTypes # <<>> =>
                      \/ \E n \in 1..Len(EffectivePreferredTypes) :
                            EffectivePreferredTypes[n] = x.item.type
                      \/ x.score > (7 * Unit) \div 10]_vars
\* recommend under a preferred type no item has returned the one item that
\* scores above 0.7 and dropped a candidate
C24_Witness ==
    /\ ret.op = "recommend"
    /\ ret.caught = "none"
    /\ Has(ret.request, "userPreferences")
    /\ ret.request.userPreferences.preferredTypes = <<"qa">>
    /\ Len(ret.value.items) = 1
    /\ ret.value.items[1].item.type = "code"
    /\ ret.value.items[1].score > (7 * Unit) \div 10
    /\ ret.value.metadata.totalCandidates > 1

\* the de-duplicated candidate pool of the recommend that just resolved
CandidatePool ==
    getCandidates(vectors', ret'.request, ret'.value.strategy,
                  IF HasQuery(ret'.request)
                  THEN CacheGet(embeddingCache', ret'.request.query)
                  ELSE Undefined).value
\* the position of the item of an id in the pool
PoolIndex(id) ==
    CHOOSE n \in 1..Len(CandidatePool) : CandidatePool[n].id = id

\* C25: the items of a recommend result are in non-increasing order of total
\* score, and items of equal score are in the order they have in the
\* de-duplicated candidate pool.
C25_ResultSortedStably ==
    [][NormalRecommendResolves =>
         \A i, j \in 1..Len(ret'.value.items) :
            i < j =>
               LET a == ret'.value.items[i]
                   b == ret'.value.items[j]
               IN  /\ a.score >= b.score
                   /\ a.score = b.score =>
                         PoolIndex(a.item.id) < PoolIndex(b.item.id)]_vars
\* a result of two items of one score
C25_Witness ==
    /\ ret.op = "recommend"
    /\ ret.caught = "none"
    /\ Len(ret.value.items) = 2
    /\ ret.value.items[1].score = ret.value.items[2].score

\* the complexity preference in force for the call that just resolved
EffectiveComplexity ==
    IF /\ Has(ret'.request, "userPreferences")
       /\ Has(ret'.request.userPreferences, "complexityPreference")
    THEN ret'.request.userPreferences.complexityPreference
    ELSE userPreferences'.complexityPreference

\* C26: the filter list in the metadata of a recommend result names the
\* filters applied to that request: min_score always, content_type if and
\* only if the effective preferred types (of the request, else of the engine)
\* are not empty, complexity if and only if the effective complexity
\* preference is not medium.
C26_FilterListNamesAppliedFilters ==
    [][NormalRecommendResolves =>
         LET filtersApplied == ret'.value.metadata.filtersApplied
         IN  /\ Includes(filtersApplied, "min_score")
             /\ Includes(filtersApplied, "content_type")
                    <=> EffectivePreferredTypes # <<>>
             /\ Includes(filtersApplied, "complexity")
                    <=> EffectiveComplexity # "medium"]_vars

\* the quality heuristic with the length bonus decided by the length of the
\* full content that was stored for the item
QualityByFullContent(item) ==
    LET fullLength == item.metadata.contentLength
    IN  Min(Unit,
            500
            + (IF fullLength > 100 /\ fullLength < 2000 THEN 200 ELSE 0)
            + (IF item.preview.len > 0 THEN 100 ELSE 0)
            + (IF DOMAIN item.metadata # {} THEN 200 ELSE 0))

\* C27: the quality of every scored item is 0.5, plus 0.2 if and only if the
\* length of the full content stored for it is between 100 and 2000
\* characters, plus 0.1 for a non-empty preview, plus 0.2 for non-empty
\* metadata, capped at 1.0; a tenth of it is the share of the quality in the
\* score of a returned item.
C27_QualityBonusByFullContentLength ==
    [][PlainRecommendResolves =>
         \A i \in 1..Len(ret'.value.items) :
            LET x == ret'.value.items[i]
            IN  x.score
                  = Weighted(calculateTemporalScore(x.item, ret'.request,
                                                    userPreferences', now'), 200)
                    + Weighted(calculatePreferenceScore(x.item, ret'.request,
                                                        userPreferences'), 200)
                    + Weighted(calculateUsageScore(usageHistory', x.item.id), 100)
                    + Weighted(QualityByFullContent(x.item), 100)]_vars


(***************************************************************************)
(* Properties of the clusters                                              *)
(***************************************************************************)
\* the stored vectors of the members of cluster c, in their order
MemberVectors(result, c) ==
    [j \in 1..Len(result[c].items) |-> MapGet(vectors, result[c].items[j].id).vector]
\* the componentwise mean of vectors of one dimension
MeanOf(list) ==
    [i \in 1..Len(list[1].elems) |->
        SumSeq([j \in 1..Len(list) |-> list[j].elems[i]]) \div Len(list)]
\* the centroid of cluster c is the mean of its members
CentroidIsMean(result, c) ==
    LET members == MemberVectors(result, c)
    IN  /\ \A j \in 1..Len(members) :
              /\ IsArr(members[j])
              /\ Len(members[j].elems) = Len(members[1].elems)
        /\ result[c].centroid = Arr(MeanOf(members))
\* a stored id is a member of exactly one cluster, once
InOneCluster(result, id) ==
    Cardinality({<<c, j>> \in (1..Len(result)) \X (1..MaxId) :
                    /\ j <= Len(result[c].items)
                    /\ result[c].items[j].id = id}) = 1

\* C28: with n stored vectors and 1 <= k <= n, cluster(k) returns exactly k
\* clusters whose member lists partition the stored ids (clusters may be
\* empty), and the centroid of every non-empty cluster is the mean of its
\* members, whatever the initial centroids and however the loop stops.
C28_ClustersPartitionWithMeanCentroids ==
    (ret.op = "performClustering" /\ ret.k >= 1 /\ ret.k <= Len(vectors)) =>
        /\ ret.threw = "none"
        /\ Len(ret.value) = ret.k
        /\ \A i \in 1..Len(vectors) : InOneCluster(ret.value, vectors[i].id)
        /\ \A c \in 1..Len(ret.value) :
              /\ \A j \in 1..Len(ret.value[c].items) :
                    MapHas(vectors, ret.value[c].items[j].id)
              /\ ret.value[c].items # <<>> => CentroidIsMean(ret.value, c)


(***************************************************************************)
(* Properties of the reasons                                               *)
(***************************************************************************)
\* the types of the reasons of the items of the result in ret
ReasonTypes ==
    {ret.value.items[i].reasons[j].type :
        <<i, j>> \in {<<a, b>> \in (1..Len(ret.value.items)) \X (1..5) :
                        b <= Len(ret.value.items[a].reasons)}}

\* C29: no item recommend returns carries a reason for the usage component
\* (collaborative_filtering) or for the quality component (content_based):
\* weighted 0.1 and at most 1, neither exceeds the 0.1 a reason needs,
\* whatever the usage history and the item.
C29_NoUsageOrQualityReason ==
    ret.op = "recommend" =>
        /\ "collaborative_filtering" \notin ReasonTypes
        /\ "content_based" \notin ReasonTypes
\* a returned item that was liked as often as the bound allows and whose
\* quality is the full 1.0
C29_Witness ==
    /\ ret.op = "recommend"
    /\ \E i \in 1..Len(ret.value.items) :
          LET item == ret.value.items[i].item
          IN  /\ UsageHas(usageHistory, item.id)
              /\ UsageGet(usageHistory, item.id).likeCount = MaxInteractions
              /\ calculateQualityScore(item) = Unit
              /\ ret.value.items[i].reasons # <<>>


(***************************************************************************)
(* Properties of deleteVector and clear under concurrent stores            *)
(***************************************************************************)
\* the step is a deleteVector or a clear that has run
RemovalStep ==
    /\ ret'.op \in {"deleteVector", "clear"}
    /\ <<vectors, ret>>' # <<vectors, ret>>
\* the step is the end of the store `call` that awaited its embedding
StoreResumes(call) ==
    /\ call.op = "storeVector"
    /\ calls' = calls (-) SetToBag({call})

\* C30: deleteVector(id) and clear() remove the records present at that
\* moment and nothing else, and cancel no store in flight: the calls awaiting
\* their embedding are the same after the step, and every store that awaits
\* its embedding writes its record when the embedding resolves, so that the
\* id is present again although no store was started after the removal.
C30_RemovalDoesNotCancelStores ==
    [][/\ RemovalStep =>
            /\ calls' = calls
            /\ vectors' = IF ret'.op = "clear" THEN <<>>
                          ELSE SelectSeq(vectors, LAMBDA d : d.id # ret'.id)
       /\ \A call \in AwaitingCalls :
            StoreResumes(call) =>
                /\ MapHas(vectors', call.id)
                /\ MapGet(vectors', call.id).metadata.contentLength
                       = call.content.len]_vars
\* deleteVector has just removed the record of an id a store of which awaits
\* its embedding
C30_Witness ==
    /\ ret.op = "deleteVector"
    /\ ret.value
    /\ ~MapHas(vectors, ret.id)
    /\ \E call \in AwaitingCalls : call.op = "storeVector" /\ call.id = ret.id

=============================================================================
